---- MODULE Spec2Model ----
(***************************************************************************)
(* A model of trading::PricingEngine (backend/src/pricing_engine.cpp,      *)
(* backend/include/pricing_engine.h): the two per-exchange quote stores,   *)
(* the contract registry, the rolling volume history, the implied          *)
(* volatility table and the operations that read and write them.           *)
(*                                                                         *)
(* std::map<K,V> is a function whose DOMAIN is the set of keys present;    *)
(* std::vector is a sequence.  A double is a record: an exact rational     *)
(* (k = "fin", n/d in lowest terms, d > 0), an infinity (k = "inf",        *)
(* n = +1 or -1) or a NaN (k = "nan"), with the IEEE-754 rules for         *)
(* division by zero and for comparisons with NaN.  Rounding is not         *)
(* modelled.  MarketData::last_updated (a wall-clock stamp that no         *)
(* operation reads) is left out of the quote record.                       *)
(***************************************************************************)
EXTENDS Integers, Sequences, FiniteSets, TLC

(***************************************************************************)
(* Doubles                                                                 *)
(***************************************************************************)
RECURSIVE GCD(_, _)
GCD(a, b) == IF b = 0 THEN a ELSE GCD(b, a % b)

IAbs(x) == IF x < 0 THEN -x ELSE x

ISign(x) == IF x < 0 THEN -1 ELSE IF x > 0 THEN 1 ELSE 0

Fin(n, d) ==
    LET g == GCD(IAbs(n), d)
    IN  [k |-> "fin", n |-> n \div g, d |-> d \div g]

NaN == [k |-> "nan", n |-> 0, d |-> 0]

Inf(s) == [k |-> "inf", n |-> s, d |-> 0]

D(i) == Fin(i, 1)

DIsNaN(x) == x.k = "nan"

DNeg(x) == IF x.k = "nan" THEN NaN ELSE [x EXCEPT !.n = -x.n]

DAbs(x) == IF x.k = "nan" THEN NaN ELSE [x EXCEPT !.n = IAbs(x.n)]

DAdd(x, y) ==
    IF x.k = "nan" \/ y.k = "nan" THEN NaN
    ELSE IF x.k = "inf" /\ y.k = "inf" THEN (IF x.n = y.n THEN x ELSE NaN)
    ELSE IF x.k = "inf" THEN x
    ELSE IF y.k = "inf" THEN y
    ELSE Fin(x.n * (y.d \div GCD(x.d, y.d)) + y.n * (x.d \div GCD(x.d, y.d)),
             (x.d \div GCD(x.d, y.d)) * y.d)

DSub(x, y) == DAdd(x, DNeg(y))

DMul(x, y) ==
    IF x.k = "nan" \/ y.k = "nan" THEN NaN
    ELSE IF x.k = "inf" \/ y.k = "inf"
         THEN (IF x.n = 0 \/ y.n = 0 THEN NaN ELSE Inf(ISign(x.n) * ISign(y.n)))
    ELSE Fin(x.n * y.n, x.d * y.d)

\* x / y with IEEE-754 results for a zero divisor: 0/0 is NaN, and a nonzero
\* finite value over zero is an infinity (the model's zero is +0.0).
DDiv(x, y) ==
    IF x.k = "nan" \/ y.k = "nan" THEN NaN
    ELSE IF x.k = "inf"
         THEN (IF y.k = "inf" THEN NaN
               ELSE Inf(x.n * (IF y.n < 0 THEN -1 ELSE 1)))
    ELSE IF y.k = "inf" THEN D(0)
    ELSE IF y.n = 0 THEN (IF x.n = 0 THEN NaN ELSE Inf(ISign(x.n)))
    ELSE Fin(x.n * y.d * ISign(y.n), x.d * IAbs(y.n))

\* x < y: false whenever an operand is NaN.
DLt(x, y) ==
    IF x.k = "nan" \/ y.k = "nan" THEN FALSE
    ELSE IF x.k = "inf" THEN (x.n < 0 /\ ~(y.k = "inf" /\ y.n < 0))
    ELSE IF y.k = "inf" THEN y.n > 0
    ELSE x.n * y.d < y.n * x.d

DEq(x, y) == x.k # "nan" /\ y.k # "nan" /\ x = y

DLe(x, y) == DLt(x, y) \/ DEq(x, y)

DMin(x, y) == IF DLt(y, x) THEN y ELSE x

DMax(x, y) == IF DLt(x, y) THEN y ELSE x

(***************************************************************************)
(* Maps                                                                    *)
(***************************************************************************)
EmptyMap == [x \in {} |-> 0]

\* m[k] = v of std::map: inserts the key when absent, replaces otherwise.
MapPut(m, k, v) == [x \in (DOMAIN m) \cup {k} |-> IF x = k THEN v ELSE m[x]]

Has(m, k) == k \in DOMAIN m

RECURSIVE SumSeq(_)
SumSeq(s) == IF s = << >> THEN 0 ELSE Head(s) + SumSeq(Tail(s))

(***************************************************************************)
(* Program constants                                                       *)
(***************************************************************************)
\* pricing_engine.cpp:370  if (volumes.size() > 30)
HistoryCap == 30


\* pricing_engine.cpp:293  open_interest / 1000000.0
OiNorm == 1000000

(***************************************************************************)
(* Bounds of the model                                                     *)
(***************************************************************************)
\* SpecVol: the longest run of appends (one more than the history can hold,
\* so that an eviction happens), and how many of the calls may differ from
\* the baseline append of BaseSample.
MaxAppends == 32

MaxVaried == 1

(***************************************************************************)
(* Inputs                                                                  *)
(***************************************************************************)
\* Keys in the order std::map<std::string, ...> iterates them.
SymbolOrder == <<"A", "B", "C", "NIFTY", "RELIANCE">>

ContractSymbols == {"A", "B"}

Underlyings == {"NIFTY", "RELIANCE"}

Symbols == ContractSymbols \cup {"C"} \cup Underlyings

Exchanges == {"NSE", "BSE", "MCX"}

Volumes == {10, 41}

\* The field values a feed quote carries; the two differ in every field.
QuoteVals ==
    { [price |-> 100, bid |-> 99, ask |-> 101, volume |-> 41,
       open_interest |-> 500000, change |-> 1, change_percent |-> 1],
      [price |-> 102, bid |-> 100, ask |-> 103, volume |-> 10,
       open_interest |-> 0, change |-> 2, change_percent |-> 2] }

MarketData(symbol, exchange, v) ==
    [symbol |-> symbol, price |-> v.price, bid |-> v.bid, ask |-> v.ask,
     volume |-> v.volume, open_interest |-> v.open_interest,
     change |-> v.change, change_percent |-> v.change_percent,
     exchange |-> exchange]

FeedQuotes(syms) ==
    { MarketData(s, e, v) : s \in syms, e \in Exchanges, v \in QuoteVals }

BaseSample == [symbol |-> "A", volume |-> 41]

(***************************************************************************)
(* State                                                                   *)
(***************************************************************************)
VARIABLES
    nse_market_data_,       \* pricing_engine.h:184
    bse_market_data_,       \* pricing_engine.h:185
    contracts_,             \* pricing_engine.h:186
    historical_volumes_,    \* pricing_engine.h:187
    risk_free_rate_,        \* pricing_engine.h:190
    volume_threshold_,      \* pricing_engine.h:191
    implied_volatilities_,  \* pricing_engine.h:194
    call,                   \* the last completed call: its name, arguments, result,
                            \* and whether it changed the engine's state
    feed,                   \* history: every quote submitted, in order
    added,                  \* history: every contract added, in order
    appended,               \* history: per symbol, every volume appended, in order
    budget,                 \* history: mutating calls made, and how many were varied
    feeder,                 \* the feed thread: where it is inside its update
    reader                  \* the request thread: where it is inside its read

stores == <<nse_market_data_, bse_market_data_, contracts_, historical_volumes_,
            implied_volatilities_>>

config == <<risk_free_rate_, volume_threshold_>>

history == <<feed, added, appended, budget>>

threads == <<feeder, reader>>

vars == <<stores, config, call, history, threads>>

NoCall == [op |-> "none", arg |-> << >>, ret |-> << >>, wrote |-> TRUE]

\* PricingEngine::PricingEngine()
Init ==
    /\ nse_market_data_ = EmptyMap
    /\ bse_market_data_ = EmptyMap
    /\ contracts_ = EmptyMap
    /\ historical_volumes_ = EmptyMap
    /\ risk_free_rate_ = Fin(6, 100)
    /\ volume_threshold_ = Fin(5, 100)
    /\ implied_volatilities_ =
         [u \in {"NIFTY", "BANKNIFTY", "FINNIFTY"} |->
            IF u = "NIFTY" THEN Fin(15, 100)
            ELSE IF u = "BANKNIFTY" THEN Fin(18, 100) ELSE Fin(16, 100)]
    /\ call = NoCall
    /\ feed = << >>
    /\ added = << >>
    /\ appended = [s \in Symbols |-> << >>]
    /\ budget = [calls |-> 0, varied |-> 0]
    /\ feeder = [pc |-> "idle"]
    /\ reader = [pc |-> "idle"]

(***************************************************************************)
(* Volume history                                                          *)
(***************************************************************************)
\* Mutant: the eviction is missing.
updateHistoricalVolume_noErase(hv, symbol, volume) ==
    MapPut(hv, symbol,
           Append(IF Has(hv, symbol) THEN hv[symbol] ELSE << >>, volume))

\* Mutant: the newest sample is evicted instead of the oldest.
updateHistoricalVolume_popBack(hv, symbol, volume) ==
    LET volumes == IF Has(hv, symbol) THEN hv[symbol] ELSE << >>
        pushed  == Append(volumes, volume)
    IN  MapPut(hv, symbol,
               IF Len(pushed) > HistoryCap
               THEN SubSeq(pushed, 1, Len(pushed) - 1) ELSE pushed)

\* historical_volumes_[symbol] creates an empty vector for a new symbol;
\* push_back, then erase(begin()) once the size exceeds 30.
updateHistoricalVolume(hv, symbol, volume) ==
    LET volumes == IF Has(hv, symbol) THEN hv[symbol] ELSE << >>
        pushed  == Append(volumes, volume)
    IN  MapPut(hv, symbol,
               IF Len(pushed) > HistoryCap THEN Tail(pushed) ELSE pushed)

\* Mutant: the sum is divided by the window size, not by the sample count.
get30DayAverageVolume_byCap(hv, symbol) ==
    IF ~Has(hv, symbol) \/ hv[symbol] = << >> THEN 0
    ELSE SumSeq(hv[symbol]) \div HistoryCap

\* uint64_t sum / size(): the quotient is truncated.  The sums of the model
\* stay far below 2^64, so the accumulation does not wrap.
get30DayAverageVolume(hv, symbol) ==
    IF ~Has(hv, symbol) \/ hv[symbol] = << >> THEN 0
    ELSE SumSeq(hv[symbol]) \div Len(hv[symbol])

(***************************************************************************)
(* Quote stores                                                            *)
(***************************************************************************)
\* Mutant: only the price of an existing entry is refreshed.
storeQuote_merge(m, md) ==
    IF Has(m, md.symbol)
    THEN [m EXCEPT ![md.symbol] = [@ EXCEPT !.price = md.price]]
    ELSE MapPut(m, md.symbol, md)

\* nse_market_data_[md.symbol] = md: the whole struct is assigned.
storeQuote(m, md) == MapPut(m, md.symbol, md)

\* Mutant: a quote for an unknown exchange is filed under BSE.
updateOne_elseBse(st, md) ==
    [nse |-> IF md.exchange = "NSE" THEN storeQuote(st.nse, md) ELSE st.nse,
     bse |-> IF md.exchange # "NSE" THEN storeQuote(st.bse, md) ELSE st.bse,
     hv  |-> updateHistoricalVolume(st.hv, md.symbol, md.volume)]

\* Mutant: only a quote that is stored feeds the volume history.
updateOne_storedOnly(st, md) ==
    [nse |-> IF md.exchange = "NSE" THEN storeQuote(st.nse, md) ELSE st.nse,
     bse |-> IF md.exchange = "BSE" THEN storeQuote(st.bse, md) ELSE st.bse,
     hv  |-> IF md.exchange \in {"NSE", "BSE"}
             THEN updateHistoricalVolume(st.hv, md.symbol, md.volume) ELSE st.hv]

\* Mutant: a quote of either venue is stored for both venues.
updateOne_bothStores(st, md) ==
    [nse |-> IF md.exchange \in {"NSE", "BSE"} THEN storeQuote(st.nse, md) ELSE st.nse,
     bse |-> IF md.exchange \in {"NSE", "BSE"} THEN storeQuote(st.bse, md) ELSE st.bse,
     hv  |-> updateHistoricalVolume(st.hv, md.symbol, md.volume)]

\* One iteration of the loop of updateMarketData.
updateOne(st, md) ==
    [nse |-> IF md.exchange = "NSE" THEN storeQuote(st.nse, md) ELSE st.nse,
     bse |-> IF md.exchange = "BSE" THEN storeQuote(st.bse, md) ELSE st.bse,
     hv  |-> updateHistoricalVolume(st.hv, md.symbol, md.volume)]

RECURSIVE updateMarketData(_, _)
updateMarketData(st, data) ==
    IF data = << >> THEN st
    ELSE updateMarketData(updateOne(st, Head(data)), Tail(data))

EmptyData(symbol, exchange) ==
    [symbol |-> symbol, price |-> 0, bid |-> 0, ask |-> 0, volume |-> 0,
     open_interest |-> 0, change |-> 0, change_percent |-> 0,
     exchange |-> exchange]

\* Mutant: the BSE branch reads the NSE store.
getMarketData_nseOnly(nse, bse, symbol, exchange) ==
    IF exchange \in {"NSE", "BSE"} /\ Has(nse, symbol) THEN nse[symbol]
    ELSE EmptyData(symbol, exchange)

\* Mutant: the sentinel does not carry the symbol asked for.
getMarketData_blankSentinel(nse, bse, symbol, exchange) ==
    IF exchange = "NSE" /\ Has(nse, symbol) THEN nse[symbol]
    ELSE IF exchange = "BSE" /\ Has(bse, symbol) THEN bse[symbol]
    ELSE EmptyData("", "")

getMarketData(nse, bse, symbol, exchange) ==
    IF exchange = "NSE" /\ Has(nse, symbol) THEN nse[symbol]
    ELSE IF exchange = "BSE" /\ Has(bse, symbol) THEN bse[symbol]
    ELSE EmptyData(symbol, exchange)

(***************************************************************************)
(* History bookkeeping                                                     *)
(***************************************************************************)
RECURSIVE LogVolumes(_, _)
LogVolumes(log, data) ==
    IF data = << >> THEN log
    ELSE LogVolumes([log EXCEPT ![Head(data).symbol] = Append(@, Head(data).volume)],
                    Tail(data))

Spent(isBaseline) ==
    [calls |-> budget.calls + 1,
     varied |-> budget.varied + (IF isBaseline THEN 0 ELSE 1)]

TotalAppended == SumSeq([i \in 1..Len(SymbolOrder) |-> Len(appended[SymbolOrder[i]])])

(***************************************************************************)
(* Operations: market data and volume history                              *)
(***************************************************************************)
UpdateMarketData(data) ==
    LET st == updateMarketData([nse |-> nse_market_data_, bse |-> bse_market_data_,
                                hv |-> historical_volumes_], data)
    IN  /\ nse_market_data_' = st.nse
        /\ bse_market_data_' = st.bse
        /\ historical_volumes_' = st.hv
        /\ feed' = feed \o data
        /\ appended' = LogVolumes(appended, data)
        /\ budget' = Spent(FALSE)
        /\ call' = [op |-> "updateMarketData", arg |-> data, ret |-> << >>, wrote |-> TRUE]
        /\ UNCHANGED <<threads, contracts_, implied_volatilities_, config, added>>

UpdateHistoricalVolume(symbol, volume) ==
    /\ historical_volumes_' = updateHistoricalVolume(historical_volumes_, symbol, volume)
    /\ appended' = [appended EXCEPT ![symbol] = Append(@, volume)]
    /\ budget' = Spent([symbol |-> symbol, volume |-> volume] = BaseSample)
    /\ call' = [op |-> "updateHistoricalVolume", arg |-> <<symbol, volume>>, ret |-> << >>, wrote |-> TRUE]
    /\ UNCHANGED <<threads, nse_market_data_, bse_market_data_, contracts_,
                   implied_volatilities_, config, feed, added>>

GetMarketData(symbol, exchange) ==
    /\ call' = [op |-> "getMarketData", arg |-> <<symbol, exchange>>,
                ret |-> getMarketData(nse_market_data_, bse_market_data_, symbol, exchange),
                wrote |-> FALSE]
    /\ UNCHANGED <<threads, stores, config, history>>

Get30DayAverageVolume(symbol) ==
    /\ call' = [op |-> "get30DayAverageVolume", arg |-> <<symbol>>,
                ret |-> get30DayAverageVolume(historical_volumes_, symbol), wrote |-> FALSE]
    /\ UNCHANGED <<threads, stores, config, history>>

(***************************************************************************)
(* SpecVol: the volume history under long runs of appends                  *)
(***************************************************************************)
VolRoom == TotalAppended < MaxAppends

NextVol ==
    \/ \E s \in ContractSymbols, v \in Volumes :
          /\ VolRoom
          /\ UpdateHistoricalVolume(s, v)
          /\ budget'.varied <= MaxVaried
    \/ \E md \in FeedQuotes(ContractSymbols) :
          /\ VolRoom
          /\ UpdateMarketData(<<md>>)
          /\ budget'.varied <= MaxVaried
    \/ \E s \in ContractSymbols : Get30DayAverageVolume(s)

SpecVol == Init /\ [][NextVol]_vars


(***************************************************************************)
(* Contract registry                                                       *)
(***************************************************************************)
\* Mutant: std::map::insert semantics, an existing symbol keeps its entry.
addContract_insertOnly(cs, contract) ==
    IF Has(cs, contract.symbol) THEN cs ELSE MapPut(cs, contract.symbol, contract)

\* contracts_[contract.symbol] = contract
addContract(cs, contract) == MapPut(cs, contract.symbol, contract)

\* The registry's entries in key order (the order of the range-for over the map).
Entries(cs) ==
    LET keys == SelectSeq(SymbolOrder, LAMBDA k : Has(cs, k))
    IN  [i \in 1..Len(keys) |-> cs[keys[i]]]

getContracts(cs, underlying) ==
    SelectSeq(Entries(cs), LAMBDA c : c.underlying = underlying)

ContractDetails(symbol, underlying, type, option_type, strike) ==
    [symbol |-> symbol, underlying |-> underlying, instrument_type |-> type,
     strike |-> strike, expiry |-> 0, option_type |-> option_type,
     lot_size |-> 1, tick_size |-> 1]

AddContract(contract) ==
    /\ contracts_' = addContract(contracts_, contract)
    /\ added' = Append(added, contract)
    /\ budget' = Spent(FALSE)
    /\ call' = [op |-> "addContract", arg |-> <<contract>>, ret |-> << >>, wrote |-> TRUE]
    /\ UNCHANGED <<threads, nse_market_data_, bse_market_data_, historical_volumes_,
                   implied_volatilities_, config, feed, appended>>

GetContracts(underlying) ==
    /\ call' = [op |-> "getContracts", arg |-> <<underlying>>,
                ret |-> getContracts(contracts_, underlying), wrote |-> FALSE]
    /\ UNCHANGED <<threads, stores, config, history>>

(***************************************************************************)
(* Fair value                                                              *)
(***************************************************************************)
HoursPerDay == 24

DaysPerYear == 365

\* getTimeToExpiry: max(0, whole hours to expiry / 24 / 365), now being the
\* reading of the system clock, in hours.
getTimeToExpiry(expiry, now) ==
    DMax(D(0), Fin(expiry - now, HoursPerDay * DaysPerYear))

\* A finite x cut towards zero to a multiple of 1/g.
Cut(x, g) ==
    IF x.k # "fin" THEN x ELSE Fin(ISign(x.n) * ((IAbs(x.n) * g) \div x.d), g)

\* std::exp.  exp(0) is exactly 1; elsewhere the first terms of the series,
\* cut to ten-thousandths.
ExpD(x) ==
    IF x = D(0) THEN D(1)
    ELSE Cut(DAdd(DAdd(D(1), x), DDiv(DMul(x, x), D(2))), 10000)

\* The largest r with r * r <= m.
ISqrt(m) == CHOOSE r \in 0..m : r * r <= m /\ (r + 1) * (r + 1) > m

\* std::sqrt: NaN below zero; elsewhere the root cut to hundredths.
SqrtD(x) ==
    IF x.k = "nan" \/ x.n < 0 THEN NaN
    ELSE IF x.k = "inf" THEN x
    ELSE Fin(ISqrt((x.n * 10000) \div x.d), 100)

\* std::log: NaN below zero, -inf at zero, log(1) exactly 0; elsewhere the
\* first term of the series log x = 2 (y + y^3/3 + ...), y = (x-1)/(x+1).
LogD(x) ==
    IF x.k = "nan" \/ x.n < 0 THEN NaN
    ELSE IF x.k = "inf" THEN x
    ELSE IF x.n = 0 THEN Inf(-1)
    ELSE DMul(D(2), DDiv(DSub(x, D(1)), DAdd(x, D(1))))

\* erf(0), erf(0.1), ..., erf(3.0) in ten-thousandths.
ErfTable ==
    <<0, 1125, 2227, 3286, 4284, 5205, 6039, 6778, 7421, 7969, 8427, 8802, 9103,
      9340, 9523, 9661, 9763, 9838, 9891, 9928, 9953, 9970, 9981, 9989, 9993, 9996,
      9998, 9999, 9999, 10000, 10000>>

\* erf of sign * m/100 for m >= 0: read off the table, linear in between,
\* cut to thousandths, and 1 from 3 on.
ErfOfHundredths(sign, m) ==
    IF m >= 300 THEN D(sign)
    ELSE Fin(sign * ((ErfTable[m \div 10 + 1] * 10
                      + (ErfTable[m \div 10 + 2] - ErfTable[m \div 10 + 1]) * (m % 10))
                     \div 100),
             1000)

\* std::erf: an odd function, erf(+-inf) = +-1; the argument is cut to
\* hundredths.
ErfD(z) ==
    IF z.k = "nan" THEN NaN
    ELSE IF z.k = "inf" THEN D(z.n)
    ELSE ErfOfHundredths(ISign(z.n), (IAbs(z.n) * 100) \div z.d)

\* Mutant: the 0.5 is missing.
normalCDF_noHalf(x) == DAdd(D(1), ErfD(DDiv(x, SqrtD(D(2)))))

\* 0.5 * (1.0 + std::erf(x / std::sqrt(2.0)))
normalCDF(x) == DMul(Fin(1, 2), DAdd(D(1), ErfD(DDiv(x, SqrtD(D(2))))))

\* d1 of blackScholes.
d1Of(spot, strike, time_to_expiry, risk_free_rate, volatility) ==
    DDiv(DAdd(LogD(DDiv(spot, strike)),
              DMul(DAdd(risk_free_rate, DMul(DMul(Fin(1, 2), volatility), volatility)),
                   time_to_expiry)),
         DMul(volatility, SqrtD(time_to_expiry)))

\* The two return statements of blackScholes, d1 and d2 given.
valueAt(spot, strike, time_to_expiry, risk_free_rate, d1, d2, is_call) ==
    IF is_call
    THEN DSub(DMul(spot, normalCDF(d1)),
              DMul(DMul(strike, ExpD(DMul(DNeg(risk_free_rate), time_to_expiry))),
                   normalCDF(d2)))
    ELSE DSub(DMul(DMul(strike, ExpD(DMul(DNeg(risk_free_rate), time_to_expiry))),
                   normalCDF(DNeg(d2))),
              DMul(spot, normalCDF(DNeg(d1))))

\* The closed form of blackScholes for time_to_expiry > 0.
ClosedForm(spot, strike, time_to_expiry, risk_free_rate, volatility, is_call) ==
    valueAt(spot, strike, time_to_expiry, risk_free_rate,
            d1Of(spot, strike, time_to_expiry, risk_free_rate, volatility),
            DSub(d1Of(spot, strike, time_to_expiry, risk_free_rate, volatility),
                 DMul(volatility, SqrtD(time_to_expiry))),
            is_call)

\* Mutant: only a negative time to expiry takes the intrinsic value.
blackScholes_pastOnly(spot, strike, time_to_expiry, risk_free_rate, volatility, is_call) ==
    IF DLt(time_to_expiry, D(0))
    THEN (IF is_call THEN DMax(D(0), DSub(spot, strike))
          ELSE DMax(D(0), DSub(strike, spot)))
    ELSE ClosedForm(spot, strike, time_to_expiry, risk_free_rate, volatility, is_call)

blackScholes(spot, strike, time_to_expiry, risk_free_rate, volatility, is_call) ==
    IF DLe(time_to_expiry, D(0))
    THEN (IF is_call THEN DMax(D(0), DSub(spot, strike))
          ELSE DMax(D(0), DSub(strike, spot)))
    ELSE ClosedForm(spot, strike, time_to_expiry, risk_free_rate, volatility, is_call)

calculateOptionFairValue(spot_price, strike, time_to_expiry, risk_free_rate, volatility, option_type) ==
    blackScholes(spot_price, strike, time_to_expiry, risk_free_rate, volatility,
                 option_type = "CE")

(***************************************************************************)
(* Greeks                                                                  *)
(***************************************************************************)
\* The closed form of one Greek for time_to_expiry > 0 (log, sqrt, exp, erf):
\* kept as an uninterpreted term over its arguments.
GreekForm(greek, args) == [k |-> "closed_form", n |-> 0, d |-> 0, greek |-> greek, of |-> args]

calculateDelta(spot, strike, time_to_expiry, risk_free_rate, volatility, is_call) ==
    IF DLe(time_to_expiry, D(0)) THEN D(0)
    ELSE GreekForm("delta", <<spot, strike, time_to_expiry, risk_free_rate, volatility, is_call>>)

\* Mutant: gamma has no guard on the time to expiry.
calculateGamma_noGuard(spot, strike, time_to_expiry, risk_free_rate, volatility) ==
    GreekForm("gamma", <<spot, strike, time_to_expiry, risk_free_rate, volatility>>)

calculateGamma(spot, strike, time_to_expiry, risk_free_rate, volatility) ==
    IF DLe(time_to_expiry, D(0)) THEN D(0)
    ELSE GreekForm("gamma", <<spot, strike, time_to_expiry, risk_free_rate, volatility>>)

calculateTheta(spot, strike, time_to_expiry, risk_free_rate, volatility, is_call) ==
    IF DLe(time_to_expiry, D(0)) THEN D(0)
    ELSE GreekForm("theta", <<spot, strike, time_to_expiry, risk_free_rate, volatility, is_call>>)

calculateVega(spot, strike, time_to_expiry, risk_free_rate, volatility) ==
    IF DLe(time_to_expiry, D(0)) THEN D(0)
    ELSE GreekForm("vega", <<spot, strike, time_to_expiry, risk_free_rate, volatility>>)

calculateGreeks(spot_price, strike, time_to_expiry, risk_free_rate, volatility, option_type) ==
    [delta |-> calculateDelta(spot_price, strike, time_to_expiry, risk_free_rate,
                              volatility, option_type = "CE"),
     gamma |-> calculateGamma(spot_price, strike, time_to_expiry, risk_free_rate, volatility),
     theta |-> calculateTheta(spot_price, strike, time_to_expiry, risk_free_rate,
                              volatility, option_type = "CE"),
     vega |-> calculateVega(spot_price, strike, time_to_expiry, risk_free_rate, volatility),
     rho |-> D(0)]

(***************************************************************************)
(* Margin                                                                  *)
(***************************************************************************)
\* double underlying_price = 100.0 of both margin functions.
UnderlyingPrice == 100

\* An OptionContract, by the members the margin functions read.
OptionContract(instrument_type, lot_size, price) ==
    [contract |-> [instrument_type |-> instrument_type, lot_size |-> lot_size],
     market_data |-> [price |-> price]]

calculateSpanMargin(contract) ==
    IF contract.contract.instrument_type = "OPTION"
    THEN DAdd(D(contract.market_data.price),
              DMul(DMul(D(UnderlyingPrice), D(contract.contract.lot_size)), Fin(10, 100)))
    ELSE IF contract.contract.instrument_type = "FUTURE"
    THEN DMul(DMul(D(UnderlyingPrice), D(contract.contract.lot_size)), Fin(10, 100))
    ELSE D(0)

\* Mutant: only derivatives carry an exposure margin.
calculateExposureMargin_derivativesOnly(contract) ==
    IF contract.contract.instrument_type \in {"OPTION", "FUTURE"}
    THEN DMul(DMul(D(UnderlyingPrice), D(contract.contract.lot_size)), Fin(5, 100))
    ELSE D(0)

calculateExposureMargin(contract) ==
    DMul(DMul(D(UnderlyingPrice), D(contract.contract.lot_size)), Fin(5, 100))

RECURSIVE marginLoop(_, _)
marginLoop(requirement, positions) ==
    IF positions = << >> THEN requirement
    ELSE marginLoop([requirement EXCEPT
                       !.span_margin = DAdd(@, calculateSpanMargin(Head(positions))),
                       !.exposure_margin = DAdd(@, calculateExposureMargin(Head(positions)))],
                    Tail(positions))

calculateMargin(positions) ==
    LET requirement == marginLoop([span_margin |-> D(0), exposure_margin |-> D(0),
                                   calculation_method |-> "SPAN"], positions)
    IN  [span_margin |-> requirement.span_margin,
         exposure_margin |-> requirement.exposure_margin,
         total_margin |-> DAdd(requirement.span_margin, requirement.exposure_margin),
         calculation_method |-> requirement.calculation_method]

\* The engine's state as one record, for the operators that read it.
Engine ==
    [nse |-> nse_market_data_, bse |-> bse_market_data_, cs |-> contracts_,
     hv |-> historical_volumes_, iv |-> implied_volatilities_,
     rate |-> risk_free_rate_, threshold |-> volume_threshold_]

\* implied_volatilities_[underlying]: std::map::operator[] inserts a
\* value-initialised 0.0 when the key is absent.
ivLookup(iv, underlying) ==
    IF Has(iv, underlying) THEN iv ELSE MapPut(iv, underlying, D(0))

\* Mutant: the cash fair value is always the volume-weighted average.
calculateFairValue_alwaysWeighted(st, contract, now) ==
    LET nse_data == getMarketData(st.nse, st.bse, contract.symbol, "NSE")
        bse_data == getMarketData(st.nse, st.bse, contract.symbol, "BSE")
    IN  [value |-> DDiv(DAdd(DMul(D(nse_data.price), D(nse_data.volume)),
                             DMul(D(bse_data.price), D(bse_data.volume))),
                        D(nse_data.volume + bse_data.volume)),
         iv |-> st.iv]

\* The value returned, and the volatility table as the call leaves it.
calculateFairValue(st, contract, now) ==
    IF contract.instrument_type = "CASH" THEN
        LET nse_data == getMarketData(st.nse, st.bse, contract.symbol, "NSE")
            bse_data == getMarketData(st.nse, st.bse, contract.symbol, "BSE")
            total_volume == nse_data.volume + bse_data.volume
        IN  [value |->
               IF total_volume > 0
               THEN DDiv(DAdd(DMul(D(nse_data.price), D(nse_data.volume)),
                              DMul(D(bse_data.price), D(bse_data.volume))),
                         D(total_volume))
               ELSE DDiv(DAdd(D(nse_data.price), D(bse_data.price)), D(2)),
             iv |-> st.iv]
    ELSE IF contract.instrument_type = "FUTURE" THEN
        LET spot_data == getMarketData(st.nse, st.bse, contract.underlying, "NSE")
            time_to_expiry == getTimeToExpiry(contract.expiry, now)
        IN  [value |-> DMul(D(spot_data.price), ExpD(DMul(st.rate, time_to_expiry))),
             iv |-> st.iv]
    ELSE IF contract.instrument_type = "OPTION" THEN
        LET spot_data == getMarketData(st.nse, st.bse, contract.underlying, "NSE")
            time_to_expiry == getTimeToExpiry(contract.expiry, now)
            iv2 == ivLookup(st.iv, contract.underlying)
        IN  [value |-> calculateOptionFairValue(D(spot_data.price), D(contract.strike),
                          time_to_expiry, st.rate, iv2[contract.underlying],
                          contract.option_type),
             iv |-> iv2]
    ELSE [value |-> D(0), iv |-> st.iv]

(***************************************************************************)
(* Liquidity and compliance                                                *)
(***************************************************************************)
\* (ask - bid) / price * 100
spreadPct(data) ==
    DMul(DDiv(DSub(D(data.ask), D(data.bid)), D(data.price)), D(100))

\* Mutant: with no history only the volume ratio is taken as 0.
calculateLiquidityScore_ratioZero(data, volume_30day) ==
    LET volume_ratio == IF volume_30day = 0 THEN D(0)
                        ELSE DDiv(D(data.volume), D(volume_30day))
        oi_factor == DMin(D(1), DDiv(D(data.open_interest), D(OiNorm)))
        spread_factor == DDiv(D(1), DAdd(D(1), spreadPct(data)))
    IN  DAdd(DAdd(DMul(volume_ratio, Fin(4, 10)), DMul(oi_factor, Fin(3, 10))),
             DMul(spread_factor, Fin(3, 10)))

calculateLiquidityScore(data, volume_30day) ==
    IF volume_30day = 0 THEN D(0)
    ELSE LET volume_ratio == DDiv(D(data.volume), D(volume_30day))
             oi_factor == DMin(D(1), DDiv(D(data.open_interest), D(OiNorm)))
             spread_factor == DDiv(D(1), DAdd(D(1), spreadPct(data)))
         IN  DAdd(DAdd(DMul(volume_ratio, Fin(4, 10)), DMul(oi_factor, Fin(3, 10))),
                  DMul(spread_factor, Fin(3, 10)))

\* Mutant: the compliance test uses the default threshold, whatever was set.
checkVolumeConstraints_defaultThreshold(st, symbol, quantity) ==
    DLe(quantity, DMul(D(get30DayAverageVolume(st.hv, symbol)), Fin(5, 100)))

checkVolumeConstraints(st, symbol, quantity) ==
    LET avg_volume == get30DayAverageVolume(st.hv, symbol)
        threshold_volume == DMul(D(avg_volume), st.threshold)
    IN  DLe(quantity, threshold_volume)

calculateImpactCost(data, quantity) ==
    LET volume_ratio == DDiv(quantity, D(data.volume))
    IN  DMul(DDiv(DMul(volume_ratio, DSub(D(data.ask), D(data.bid))), D(data.price)),
             D(100))

(***************************************************************************)
(* Comparison                                                              *)
(***************************************************************************)
\* |price - fair_value| / fair_value * 100
absDiffPct(price, fair_value) ==
    DMul(DDiv(DAbs(DSub(D(price), fair_value)), fair_value), D(100))

\* (price - fair_value) / fair_value * 100
diffPct(price, fair_value) ==
    DMul(DDiv(DSub(D(price), fair_value), fair_value), D(100))

\* Mutant: the spread is not part of the recommendation.
isRecommended_noSpread(percentage_diff, liquidity_score, volume_compliant, bid_ask_spread) ==
    /\ DLt(DAbs(percentage_diff), Fin(5, 10))
    /\ DLt(Fin(6, 10), liquidity_score)
    /\ volume_compliant

\* The recommendation logic.
isRecommended(percentage_diff, liquidity_score, volume_compliant, bid_ask_spread) ==
    /\ DLt(DAbs(percentage_diff), Fin(5, 10))
    /\ DLt(Fin(6, 10), liquidity_score)
    /\ volume_compliant
    /\ DLt(bid_ask_spread, D(1))

\* The entry filled in once the exchange is chosen and its figures computed.
comparisonOf(contract, nse_data, bse_data, fair_value, exchange, selected_data, percentage_diff, liquidity_score, volume_30day, volume_compliant, bid_ask_spread, impact_cost) ==
    [symbol |-> contract.symbol,
     instrument_type |-> contract.instrument_type,
     nse_price |-> D(nse_data.price),
     bse_price |-> D(bse_data.price),
     fair_value |-> fair_value,
     percentage_diff |-> percentage_diff,
     is_recommended |-> isRecommended(percentage_diff, liquidity_score,
                                      volume_compliant, bid_ask_spread),
     liquidity_score |-> liquidity_score,
     volume_30day |-> volume_30day,
     current_volume |-> selected_data.volume,
     open_interest |-> selected_data.open_interest,
     exchange |-> exchange,
     expiry_date |-> contract.expiry,
     bid_ask_spread |-> bid_ask_spread,
     impact_cost |-> impact_cost,
     volume_compliant |-> volume_compliant]

\* Mutant: the spread and the impact cost are always those of the NSE quote.
compareOn_costOfNse(st, contract, target_quantity, nse_data, bse_data, fair_value, exchange, selected_data) ==
    comparisonOf(contract, nse_data, bse_data, fair_value, exchange, selected_data,
                 diffPct(selected_data.price, fair_value),
                 calculateLiquidityScore(selected_data,
                                         get30DayAverageVolume(st.hv, contract.symbol)),
                 get30DayAverageVolume(st.hv, contract.symbol),
                 checkVolumeConstraints(st, contract.symbol, target_quantity),
                 spreadPct(nse_data),
                 calculateImpactCost(nse_data, target_quantity))

\* The figures of the chosen exchange.
compareOn(st, contract, target_quantity, nse_data, bse_data, fair_value, exchange, selected_data) ==
    comparisonOf(contract, nse_data, bse_data, fair_value, exchange, selected_data,
                 diffPct(selected_data.price, fair_value),
                 calculateLiquidityScore(selected_data,
                                         get30DayAverageVolume(st.hv, contract.symbol)),
                 get30DayAverageVolume(st.hv, contract.symbol),
                 checkVolumeConstraints(st, contract.symbol, target_quantity),
                 spreadPct(selected_data),
                 calculateImpactCost(selected_data, target_quantity))

\* The choice of the exchange with the smaller difference; BSE on a tie or
\* when the differences do not compare.
\* Mutant: NSE is taken when the two deviations are equal.
compareData_nseOnTie(st, contract, target_quantity, nse_data, bse_data, fair_value) ==
    IF DLe(absDiffPct(nse_data.price, fair_value), absDiffPct(bse_data.price, fair_value))
    THEN compareOn(st, contract, target_quantity, nse_data, bse_data, fair_value,
                   "NSE", nse_data)
    ELSE compareOn(st, contract, target_quantity, nse_data, bse_data, fair_value,
                   "BSE", bse_data)

compareData(st, contract, target_quantity, nse_data, bse_data, fair_value) ==
    IF DLt(absDiffPct(nse_data.price, fair_value), absDiffPct(bse_data.price, fair_value))
    THEN compareOn(st, contract, target_quantity, nse_data, bse_data, fair_value,
                   "NSE", nse_data)
    ELSE compareOn(st, contract, target_quantity, nse_data, bse_data, fair_value,
                   "BSE", bse_data)

compareFair(st, contract, target_quantity, fv) ==
    [cmp |-> compareData(st, contract, target_quantity,
                         getMarketData(st.nse, st.bse, contract.symbol, "NSE"),
                         getMarketData(st.nse, st.bse, contract.symbol, "BSE"),
                         fv.value),
     iv |-> fv.iv]

\* One iteration of the loop of compareContracts: the entry, and the
\* volatility table as calculateFairValue leaves it.
compareOne(st, contract, target_quantity, now) ==
    compareFair(st, contract, target_quantity, calculateFairValue(st, contract, now))

\* The loop over the contracts of the underlying, before the sort.
RECURSIVE compareLoop(_, _, _, _, _)
compareNext(st, contracts, target_quantity, now, comparisons, one) ==
    compareLoop([st EXCEPT !.iv = one.iv], Tail(contracts), target_quantity, now,
                Append(comparisons, one.cmp))

compareLoop(st, contracts, target_quantity, now, comparisons) ==
    IF contracts = << >> THEN [comparisons |-> comparisons, iv |-> st.iv]
    ELSE compareNext(st, contracts, target_quantity, now, comparisons,
                     compareOne(st, Head(contracts), target_quantity, now))

\* The comparator handed to std::sort.
sortLess(a, b) == DLt(DAbs(a.percentage_diff), DAbs(b.percentage_diff))

\* std::sort requires a strict weak ordering; DLt is irreflexive and
\* transitive, so what can fail is the transitivity of incomparability
\* (a NaN is incomparable with everything).
StrictWeak(seq) ==
    LET eq(i, j) == ~sortLess(seq[i], seq[j]) /\ ~sortLess(seq[j], seq[i])
    IN  \A i, j, k \in 1..Len(seq) : eq(i, j) /\ eq(j, k) => eq(i, k)

Permuted(seq) ==
    { [i \in 1..Len(seq) |-> seq[p[i]]] : p \in Permutations(1..Len(seq)) }

\* Mutant: the comparisons are returned in registry order, unsorted.
sortOutcomes_noSort(seq) == {seq}

\* The results std::sort may leave: with a strict weak ordering, any
\* arrangement in which no later element is less than an earlier one (the
\* sort is not stable); otherwise the behaviour is undefined and any
\* arrangement of the elements may come out.
sortOutcomes(seq) ==
    IF StrictWeak(seq)
    THEN { r \in Permuted(seq) : \A i, j \in 1..Len(r) : i < j => ~sortLess(r[j], r[i]) }
    ELSE Permuted(seq)

\* Mutant: contracts without a quote on either venue are left out.
compareContracts_quotedOnly(st, underlying, target_quantity, now) ==
    compareLoop(st,
                SelectSeq(getContracts(st.cs, underlying),
                          LAMBDA c : Has(st.nse, c.symbol) \/ Has(st.bse, c.symbol)),
                target_quantity, now, << >>)

\* The comparisons before the sort, and the volatility table afterwards.
compareContracts(st, underlying, target_quantity, now) ==
    compareLoop(st, getContracts(st.cs, underlying), target_quantity, now, << >>)

\* PriceComparison{}: every member value-initialised.
EmptyComparison ==
    [symbol |-> "", instrument_type |-> "", nse_price |-> D(0), bse_price |-> D(0),
     fair_value |-> D(0), percentage_diff |-> D(0), is_recommended |-> FALSE,
     liquidity_score |-> D(0), volume_30day |-> 0, current_volume |-> 0,
     open_interest |-> 0, exchange |-> "", expiry_date |-> 0,
     bid_ask_spread |-> D(0), impact_cost |-> D(0), volume_compliant |-> FALSE]

\* Mutant: with no entry of the class, the best entry of any class is returned.
findOptimalContract_anyClass(comparisons, instrument_type) ==
    LET hits == SelectSeq(comparisons, LAMBDA c : c.instrument_type = instrument_type)
    IN  IF hits # << >> THEN Head(hits)
        ELSE IF comparisons # << >> THEN Head(comparisons) ELSE EmptyComparison

\* std::find_if over the sorted comparisons.
findOptimalContract(comparisons, instrument_type) ==
    LET hits == SelectSeq(comparisons, LAMBDA c : c.instrument_type = instrument_type)
    IN  IF hits # << >> THEN Head(hits) ELSE EmptyComparison

(***************************************************************************)
(* Operations: pricing, comparison, configuration                          *)
(***************************************************************************)
\* The readings of the system clock, in hours.
ClockReadings == {0, 24}

CalculateFairValue(contract) ==
    \E now \in ClockReadings :
        LET fv == calculateFairValue(Engine, contract, now)
        IN  /\ implied_volatilities_' = fv.iv
            /\ call' = [op |-> "calculateFairValue", arg |-> <<contract>>, ret |-> fv.value,
                        wrote |-> fv.iv # implied_volatilities_]
            /\ UNCHANGED <<threads, nse_market_data_, bse_market_data_, contracts_,
                           historical_volumes_, config, history>>

CheckVolumeConstraints(symbol, quantity) ==
    /\ call' = [op |-> "checkVolumeConstraints", arg |-> <<symbol, quantity>>,
                ret |-> checkVolumeConstraints(Engine, symbol, quantity), wrote |-> FALSE]
    /\ UNCHANGED <<threads, stores, config, history>>

CompareContracts(underlying, target_quantity) ==
    \E now \in ClockReadings :
        LET res == compareContracts(Engine, underlying, target_quantity, now)
        IN  \E sorted \in sortOutcomes(res.comparisons) :
               /\ implied_volatilities_' = res.iv
               /\ call' = [op |-> "compareContracts",
                           arg |-> <<underlying, target_quantity>>, ret |-> sorted,
                           wrote |-> res.iv # implied_volatilities_]
               /\ UNCHANGED <<threads, nse_market_data_, bse_market_data_, contracts_,
                              historical_volumes_, config, history>>

FindOptimalContract(underlying, instrument_type, target_quantity) ==
    \E now \in ClockReadings :
        LET res == compareContracts(Engine, underlying, target_quantity, now)
        IN  \E sorted \in sortOutcomes(res.comparisons) :
               /\ implied_volatilities_' = res.iv
               /\ call' = [op |-> "findOptimalContract",
                           arg |-> <<underlying, instrument_type, target_quantity>>,
                           ret |-> findOptimalContract(sorted, instrument_type),
                           wrote |-> res.iv # implied_volatilities_]
               /\ UNCHANGED <<threads, nse_market_data_, bse_market_data_, contracts_,
                              historical_volumes_, config, history>>

SetRiskFreeRate(rate) ==
    /\ risk_free_rate_' = rate
    /\ budget' = Spent(FALSE)
    /\ call' = [op |-> "setRiskFreeRate", arg |-> <<rate>>, ret |-> << >>, wrote |-> TRUE]
    /\ UNCHANGED <<threads, stores, volume_threshold_, feed, added, appended>>

SetVolumeThreshold(threshold) ==
    /\ volume_threshold_' = threshold
    /\ budget' = Spent(FALSE)
    /\ call' = [op |-> "setVolumeThreshold", arg |-> <<threshold>>, ret |-> << >>, wrote |-> TRUE]
    /\ UNCHANGED <<threads, stores, risk_free_rate_, feed, added, appended>>

(***************************************************************************)
(* Spec: every operation of the engine, called one at a time               *)
(***************************************************************************)
MaxCalls == 2

InstrumentTypes == {"CASH", "FUTURE", "OPTION", "BOND"}

Contracts ==
    { ContractDetails(s, u, t, o, 100) :
        s \in {"A"}, u \in Underlyings, t \in InstrumentTypes, o \in {"CE", "PE"} }

Quantities == {D(0), D(1), D(3)}

Rates == {Fin(6, 100), D(0)}

Thresholds == {Fin(5, 100), Fin(10, 100)}

\* A call that changed nothing leads nowhere new: whatever can follow it can
\* follow the state it was made in, so Spec does not continue from it.
Room == call.wrote /\ budget.calls < MaxCalls

Fresh == call.wrote

Next ==
    \/ \E md \in FeedQuotes({"A", "NIFTY"}) : Room /\ UpdateMarketData(<<md>>)
    \/ \E s \in {"A"}, v \in Volumes : Room /\ UpdateHistoricalVolume(s, v)
    \/ \E c \in Contracts : Room /\ AddContract(c)
    \/ \E r \in Rates : Room /\ SetRiskFreeRate(r)
    \/ \E t \in Thresholds : Room /\ SetVolumeThreshold(t)
    \/ \E s \in {"A", "NIFTY"}, e \in Exchanges : Fresh /\ GetMarketData(s, e)
    \/ \E u \in Underlyings : Fresh /\ GetContracts(u)
    \/ \E s \in {"A", "NIFTY"} : Fresh /\ Get30DayAverageVolume(s)
    \/ \E c \in Contracts : Fresh /\ CalculateFairValue(c)
    \/ \E s \in {"A"}, q \in Quantities : Fresh /\ CheckVolumeConstraints(s, q)
    \/ \E u \in Underlyings, q \in Quantities : Fresh /\ CompareContracts(u, q)
    \/ \E u \in Underlyings, t \in InstrumentTypes, q \in Quantities :
          Fresh /\ FindOptimalContract(u, t, q)

Spec == Init /\ [][Next]_vars

(***************************************************************************)
(* SpecCmp: comparisons over a registry of cash contracts                  *)
(***************************************************************************)
MaxCmpCalls == 4

CmpContracts ==
    { ContractDetails(s, "NIFTY", "CASH", "CE", 100) : s \in {"A", "B", "C"} }

QuoteA == CHOOSE v \in QuoteVals : v.price = 100

QuoteB == CHOOSE v \in QuoteVals : v.price = 102

\* The feeds delivered: one venue only, both venues at different prices,
\* and several symbols in one batch.
CmpBatches ==
    { <<MarketData("B", "NSE", QuoteA)>>,
      <<MarketData("C", "NSE", QuoteA), MarketData("C", "BSE", QuoteB)>>,
      <<MarketData("A", "BSE", QuoteB)>>,
      <<MarketData("B", "NSE", QuoteA), MarketData("C", "NSE", QuoteA),
        MarketData("C", "BSE", QuoteB)>> }

CmpRoom == call.wrote /\ budget.calls < MaxCmpCalls

NextCmp ==
    \/ \E data \in CmpBatches : CmpRoom /\ UpdateMarketData(data)
    \/ \E c \in CmpContracts : CmpRoom /\ AddContract(c)
    \/ \E q \in Quantities : Fresh /\ CompareContracts("NIFTY", q)
    \/ \E t \in {"CASH", "OPTION"}, q \in Quantities :
          Fresh /\ FindOptimalContract("NIFTY", t, q)

SpecCmp == Init /\ [][NextCmp]_vars

(***************************************************************************)
(* SpecRank: comparisons over cash and future contracts, with and without  *)
(* quotes for the contract and for its underlying                          *)
(***************************************************************************)
MaxRankCalls == 3

\* A quote with a tight spread, a full open interest and a large volume.
QuoteT ==
    [price |-> 1000, bid |-> 999, ask |-> 1001, volume |-> 100,
     open_interest |-> 1000000, change |-> 0, change_percent |-> 0]

RankContracts ==
    { ContractDetails("A", "NIFTY", "CASH", "CE", 100),
      ContractDetails("B", "NIFTY", "FUTURE", "CE", 100),
      ContractDetails("C", "NIFTY", "CASH", "CE", 100) }

\* The feeds delivered: the cash contract C on one venue, the future B on
\* both venues, and the spot of the underlying.
RankBatches ==
    { <<MarketData("C", "NSE", QuoteT)>>,
      <<MarketData("B", "NSE", QuoteA), MarketData("B", "BSE", QuoteB)>>,
      <<MarketData("NIFTY", "NSE", QuoteA)>> }

RankQuantities == {D(1), D(6)}

RankRoom == call.wrote /\ budget.calls < MaxRankCalls

NextRank ==
    \/ \E data \in RankBatches : RankRoom /\ UpdateMarketData(data)
    \/ \E c \in RankContracts : RankRoom /\ AddContract(c)
    \/ \E q \in RankQuantities : Fresh /\ CompareContracts("NIFTY", q)
    \/ \E t \in {"CASH", "FUTURE", "OPTION"}, q \in RankQuantities :
          Fresh /\ FindOptimalContract("NIFTY", t, q)

SpecRank == Init /\ [][NextRank]_vars

(***************************************************************************)
(* SpecVenue: the choice of the venue, for contracts quoted on one venue,  *)
(* on both or on none, with and without a spot for the underlying          *)
(***************************************************************************)
MaxVenueCalls == 3

VenueContracts ==
    { ContractDetails("A", "NIFTY", "CASH", "CE", 100),
      ContractDetails("B", "NIFTY", "FUTURE", "CE", 100),
      ContractDetails("C", "RELIANCE", "OPTION", "CE", 100) }

\* The feeds delivered: A on one venue; A on both venues at one price; the
\* future B on one venue; B on both venues at different prices; the spot of
\* the underlying at either of the two prices.
VenueBatches ==
    { <<MarketData("A", "NSE", QuoteA)>>,
      <<MarketData("A", "NSE", QuoteA), MarketData("A", "BSE", QuoteA)>>,
      <<MarketData("A", "NSE", QuoteA),
        MarketData("A", "BSE", [QuoteB EXCEPT !.volume = QuoteA.volume])>>,
      <<MarketData("B", "NSE", QuoteA)>>,
      <<MarketData("B", "NSE", QuoteA), MarketData("B", "BSE", QuoteA)>>,
      <<MarketData("B", "NSE", QuoteA), MarketData("B", "BSE", QuoteB)>>,
      <<MarketData("NIFTY", "NSE", QuoteA)>>,
      <<MarketData("NIFTY", "NSE", QuoteB)>> }

VenueRoom == call.wrote /\ budget.calls < MaxVenueCalls

NextVenue ==
    \/ \E data \in VenueBatches : VenueRoom /\ UpdateMarketData(data)
    \/ \E c \in VenueContracts : VenueRoom /\ AddContract(c)
    \/ \E u \in Underlyings, q \in RankQuantities : Fresh /\ CompareContracts(u, q)

SpecVenue == Init /\ [][NextVenue]_vars

(***************************************************************************)
(* SpecComp: volume compliance under changing histories and thresholds     *)
(***************************************************************************)
MaxCompCalls == 3

CompVolumes == {41, 10000}

CompQuantities == {D(0), D(1), D(3), D(400), D(600)}

NextComp ==
    \/ \E v \in CompVolumes :
          /\ budget.calls < MaxCompCalls
          /\ call.wrote
          /\ UpdateHistoricalVolume("A", v)
    \/ \E t \in Thresholds :
          /\ budget.calls < MaxCompCalls
          /\ call.wrote
          /\ SetVolumeThreshold(t)
    \/ \E q \in CompQuantities : call.wrote /\ CheckVolumeConstraints("A", q)

SpecComp == Init /\ [][NextComp]_vars

(***************************************************************************)
(* SpecCalc: the calculators that depend on their arguments only           *)
(***************************************************************************)
\* Quotes handed to the calculators: a liquid one, a tight one, one without
\* open interest, one with open interest above the normalisation, and the
\* all-zero quote of a venue without data.
CalcQuotes ==
    { [price |-> 100, bid |-> 99, ask |-> 101, volume |-> 5000,
       open_interest |-> 500000, change |-> 0, change_percent |-> 0],
      QuoteT,
      QuoteB,
      [price |-> 100, bid |-> 100, ask |-> 100, volume |-> 41,
       open_interest |-> 2000000, change |-> 0, change_percent |-> 0],
      [price |-> 0, bid |-> 0, ask |-> 0, volume |-> 0,
       open_interest |-> 0, change |-> 0, change_percent |-> 0] }

CalcAverages == {0, 41, 10000}

CalculateLiquidityScore(data, volume_30day) ==
    /\ call' = [op |-> "calculateLiquidityScore", arg |-> <<data, volume_30day>>,
                ret |-> calculateLiquidityScore(data, volume_30day), wrote |-> FALSE]
    /\ UNCHANGED <<threads, stores, config, history>>

\* Arguments of the option calculators: spot below, at and above the
\* strike; past, at and before expiry; zero and positive rate and volatility.
CalcSpots == {D(90), D(100), D(110)}

CalcStrikes == {D(100)}

CalcTimes == {D(-1), D(0), Fin(1, 12), Fin(1, 4), D(1)}

CalcRates == {D(0), Fin(6, 100)}

CalcVolatilities == {D(0), Fin(15, 100), Fin(1, 5)}

OptionTypes == {"CE", "PE"}

CalculateOptionFairValue(spot_price, strike, time_to_expiry, risk_free_rate, volatility, option_type) ==
    /\ call' = [op |-> "calculateOptionFairValue",
                arg |-> <<spot_price, strike, time_to_expiry, risk_free_rate,
                          volatility, option_type>>,
                ret |-> calculateOptionFairValue(spot_price, strike, time_to_expiry,
                                                 risk_free_rate, volatility, option_type),
                wrote |-> FALSE]
    /\ UNCHANGED <<threads, stores, config, history>>

CalculateGreeks(spot_price, strike, time_to_expiry, risk_free_rate, volatility, option_type) ==
    /\ call' = [op |-> "calculateGreeks",
                arg |-> <<spot_price, strike, time_to_expiry, risk_free_rate,
                          volatility, option_type>>,
                ret |-> calculateGreeks(spot_price, strike, time_to_expiry,
                                        risk_free_rate, volatility, option_type),
                wrote |-> FALSE]
    /\ UNCHANGED <<threads, stores, config, history>>

MaxPositions == 2

\* Positions of every class, small and large lots, with and without premium.
CalcPositions ==
    { OptionContract(t, l, p) :
        t \in {"OPTION", "FUTURE", "CASH"}, l \in {1, 50}, p \in {0, 120} }

Portfolios == UNION { [1..n -> CalcPositions] : n \in 0..MaxPositions }

CalculateMargin(positions) ==
    /\ call' = [op |-> "calculateMargin", arg |-> <<positions>>,
                ret |-> calculateMargin(positions), wrote |-> FALSE]
    /\ UNCHANGED <<threads, stores, config, history>>

\* Quotes handed to calculateImpactCost: those of CalcQuotes, and a priced
\* quote on which nothing has traded.
ImpactQuotes == CalcQuotes \cup { [QuoteA EXCEPT !.volume = 0] }

ImpactQuantities == {D(0), D(1), D(100)}

CalculateImpactCost(data, quantity) ==
    /\ call' = [op |-> "calculateImpactCost", arg |-> <<data, quantity>>,
                ret |-> calculateImpactCost(data, quantity), wrote |-> FALSE]
    /\ UNCHANGED <<threads, stores, config, history>>

\* A calculator changes nothing, so nothing new follows a call to one.
NextCalc ==
    \/ \E v \in CalcQuotes, a \in CalcAverages :
          call.wrote /\ CalculateLiquidityScore(MarketData("A", "NSE", v), a)
    \/ \E s \in CalcSpots, k \in CalcStrikes, t \in CalcTimes, r \in CalcRates,
          v \in CalcVolatilities, o \in OptionTypes :
          call.wrote /\ CalculateOptionFairValue(s, k, t, r, v, o)
    \/ \E s \in CalcSpots, k \in CalcStrikes, t \in CalcTimes, r \in CalcRates,
          v \in CalcVolatilities, o \in OptionTypes :
          call.wrote /\ CalculateGreeks(s, k, t, r, v, o)
    \/ \E positions \in Portfolios : call.wrote /\ CalculateMargin(positions)
    \/ \E v \in ImpactQuotes, q \in ImpactQuantities :
          call.wrote /\ CalculateImpactCost(MarketData("A", "NSE", v), q)

SpecCalc == Init /\ [][NextCalc]_vars

(***************************************************************************)
(* SpecFair: the fair value of a cash contract under feeds with and        *)
(* without traded volume                                                   *)
(***************************************************************************)
MaxFairCalls == 3

\* Quotes of A on either venue, each price with a traded volume and with none.
FairQuotes ==
    { MarketData("A", e, [v EXCEPT !.volume = w]) :
        e \in {"NSE", "BSE"}, v \in {QuoteA, QuoteB}, w \in {0, 10} }

FairContracts == { ContractDetails("A", "NIFTY", "CASH", "CE", 100) }

NextFair ==
    \/ \E md \in FairQuotes :
          /\ budget.calls < MaxFairCalls
          /\ call.wrote
          /\ UpdateMarketData(<<md>>)
    \/ \E c \in FairContracts : call.wrote /\ CalculateFairValue(c)

SpecFair == Init /\ [][NextFair]_vars

(***************************************************************************)
(* Two threads.  The engine takes no lock (pricing_engine.h declares no    *)
(* mutex), so a feed thread inside updateMarketData or                     *)
(* updateHistoricalVolume and a request thread inside getMarketData or     *)
(* get30DayAverageVolume interleave at the grain of their member           *)
(* accesses: MarketData is assigned and copied member by member, in        *)
(* declaration order, and the vector is pushed to before it is trimmed.    *)
(* Here `call` is the request thread's last completed call.                *)
(***************************************************************************)
\* The members of MarketData in declaration order (pricing_engine.h:11-22).
Fields ==
    <<"symbol", "price", "bid", "ask", "volume", "open_interest", "change",
      "change_percent", "exchange">>

\* The entry std::map::operator[] creates for a new key: value-initialised.
ZeroData == EmptyData("", "")

\* updateMarketData is entered with a batch of one quote.
F_UpdateMarketData(md) ==
    /\ feeder.pc = "idle"
    /\ feeder' = [pc |-> "store", md |-> md, i |-> 1, op |-> "updateMarketData"]
    /\ feed' = Append(feed, md)
    /\ UNCHANGED <<stores, config, call, added, appended, budget, reader>>

\* nse_market_data_[md.symbol] (or the BSE store): the lookup that inserts.
F_Lookup ==
    /\ feeder.pc = "store"
    /\ IF feeder.md.exchange = "NSE"
       THEN /\ nse_market_data_' = IF Has(nse_market_data_, feeder.md.symbol)
                                   THEN nse_market_data_
                                   ELSE MapPut(nse_market_data_, feeder.md.symbol, ZeroData)
            /\ feeder' = [feeder EXCEPT !.pc = "copy"]
            /\ UNCHANGED bse_market_data_
       ELSE IF feeder.md.exchange = "BSE"
       THEN /\ bse_market_data_' = IF Has(bse_market_data_, feeder.md.symbol)
                                   THEN bse_market_data_
                                   ELSE MapPut(bse_market_data_, feeder.md.symbol, ZeroData)
            /\ feeder' = [feeder EXCEPT !.pc = "copy"]
            /\ UNCHANGED nse_market_data_
       ELSE /\ feeder' = [feeder EXCEPT !.pc = "push"]
            /\ UNCHANGED <<nse_market_data_, bse_market_data_>>
    /\ UNCHANGED <<contracts_, historical_volumes_, implied_volatilities_, config,
                   call, history, reader>>

\* ... = md: one member of the stored entry is assigned.
F_AssignMember ==
    /\ feeder.pc = "copy"
    /\ LET f == Fields[feeder.i]
           s == feeder.md.symbol
       IN  IF feeder.md.exchange = "NSE"
           THEN /\ nse_market_data_' = [nse_market_data_ EXCEPT ![s][f] = feeder.md[f]]
                /\ UNCHANGED bse_market_data_
           ELSE /\ bse_market_data_' = [bse_market_data_ EXCEPT ![s][f] = feeder.md[f]]
                /\ UNCHANGED nse_market_data_
    /\ feeder' = IF feeder.i = Len(Fields) THEN [feeder EXCEPT !.pc = "push"]
                 ELSE [feeder EXCEPT !.i = @ + 1]
    /\ UNCHANGED <<contracts_, historical_volumes_, implied_volatilities_, config,
                   call, history, reader>>

\* updateHistoricalVolume is entered directly.
F_UpdateHistoricalVolume(symbol, volume) ==
    /\ feeder.pc = "idle"
    /\ feeder' = [pc |-> "push", md |-> [symbol |-> symbol, volume |-> volume],
                  i |-> 1, op |-> "updateHistoricalVolume"]
    /\ UNCHANGED <<stores, config, call, history, reader>>

\* volumes.push_back(volume)
F_PushBack ==
    /\ feeder.pc = "push"
    /\ historical_volumes_' =
         updateHistoricalVolume_noErase(historical_volumes_, feeder.md.symbol,
                                        feeder.md.volume)
    /\ appended' = [appended EXCEPT ![feeder.md.symbol] = Append(@, feeder.md.volume)]
    /\ feeder' = [feeder EXCEPT !.pc = "trim"]
    /\ UNCHANGED <<nse_market_data_, bse_market_data_, contracts_,
                   implied_volatilities_, config, call, feed, added, budget, reader>>

\* if (volumes.size() > 30) volumes.erase(volumes.begin()); and the return.
F_Trim ==
    /\ feeder.pc = "trim"
    /\ historical_volumes_' =
         [historical_volumes_ EXCEPT ![feeder.md.symbol] =
            IF Len(@) > HistoryCap THEN Tail(@) ELSE @]
    /\ budget' = Spent(/\ feeder.op = "updateHistoricalVolume"
                       /\ feeder.md = BaseSample)
    /\ feeder' = [pc |-> "idle"]
    /\ UNCHANGED <<nse_market_data_, bse_market_data_, contracts_,
                   implied_volatilities_, config, call, feed, added, appended, reader>>

\* The request thread makes one call in a run.
ReaderFree == reader.pc = "idle"

\* getMarketData up to the branch taken: find(), then either the sentinel
\* is built and returned or the copy of the stored entry begins.
R_GetMarketData(symbol, exchange) ==
    /\ ReaderFree
    /\ IF \/ (exchange = "NSE" /\ Has(nse_market_data_, symbol))
          \/ (exchange = "BSE" /\ Has(bse_market_data_, symbol))
       THEN /\ reader' = [pc |-> "copy", symbol |-> symbol, exchange |-> exchange,
                          i |-> 1, buf |-> ZeroData]
            /\ UNCHANGED call
       ELSE /\ call' = [op |-> "getMarketData", arg |-> <<symbol, exchange>>,
                        ret |-> EmptyData(symbol, exchange), wrote |-> FALSE]
            /\ reader' = [pc |-> "done"]
    /\ UNCHANGED <<stores, config, history, feeder>>

\* return nse_market_data_[symbol]: one member is copied out; after the
\* last one the call returns.
R_CopyMember ==
    /\ reader.pc = "copy"
    /\ LET f == Fields[reader.i]
           entry == IF reader.exchange = "NSE" THEN nse_market_data_[reader.symbol]
                    ELSE bse_market_data_[reader.symbol]
           buf == [reader.buf EXCEPT ![f] = entry[f]]
       IN  IF reader.i = Len(Fields)
           THEN /\ call' = [op |-> "getMarketData",
                            arg |-> <<reader.symbol, reader.exchange>>,
                            ret |-> buf, wrote |-> FALSE]
                /\ reader' = [pc |-> "done"]
           ELSE /\ reader' = [reader EXCEPT !.i = @ + 1, !.buf = buf]
                /\ UNCHANGED call
    /\ UNCHANGED <<stores, config, history, feeder>>

\* get30DayAverageVolume up to the branch taken: find() and empty().
R_Get30DayAverageVolume(symbol) ==
    /\ ReaderFree
    /\ IF ~Has(historical_volumes_, symbol) \/ historical_volumes_[symbol] = << >>
       THEN /\ call' = [op |-> "get30DayAverageVolume", arg |-> <<symbol>>,
                        ret |-> 0, wrote |-> FALSE, seen |-> 0]
            /\ reader' = [pc |-> "done"]
       ELSE /\ reader' = [pc |-> "accumulate", symbol |-> symbol]
            /\ UNCHANGED call
    /\ UNCHANGED <<stores, config, history, feeder>>

\* std::accumulate over the vector as it is now.
R_Accumulate ==
    /\ reader.pc = "accumulate"
    /\ reader' = [pc |-> "divide", symbol |-> reader.symbol,
                  sum |-> SumSeq(historical_volumes_[reader.symbol]),
                  seen |-> Len(historical_volumes_[reader.symbol])]
    /\ UNCHANGED <<stores, config, call, history, feeder>>

\* sum / volumes.size(), the size as it is now; seen is the number of
\* samples the sum was taken over.
R_Divide ==
    /\ reader.pc = "divide"
    /\ call' = [op |-> "get30DayAverageVolume", arg |-> <<reader.symbol>>,
                ret |-> reader.sum \div Len(historical_volumes_[reader.symbol]),
                wrote |-> FALSE, seen |-> reader.seen]
    /\ reader' = [pc |-> "done"]
    /\ UNCHANGED <<stores, config, history, feeder>>

(***************************************************************************)
(* SpecRaceQuotes: a feed thread updating quotes, a request thread reading *)
(***************************************************************************)
MaxRaceFeeds == 2

NextRaceQuotes ==
    \/ \E md \in FeedQuotes({"A"}) :
          /\ Len(feed) < MaxRaceFeeds
          /\ F_UpdateMarketData(md)
    \/ F_Lookup
    \/ F_AssignMember
    \/ F_PushBack
    \/ F_Trim
    \/ \E e \in Exchanges : R_GetMarketData("A", e)
    \/ R_CopyMember

SpecRaceQuotes == Init /\ [][NextRaceQuotes]_vars

(***************************************************************************)
(* SpecRaceVol: a feed thread appending volumes, a request thread          *)
(* averaging them                                                          *)
(***************************************************************************)
NextRaceVol ==
    \/ \E v \in Volumes :
          /\ TotalAppended < MaxAppends
          /\ budget.varied + (IF v = BaseSample.volume THEN 0 ELSE 1) <= MaxVaried
          /\ F_UpdateHistoricalVolume("A", v)
    \/ F_PushBack
    \/ F_Trim
    \/ R_Get30DayAverageVolume("A")
    \/ R_Accumulate
    \/ R_Divide

SpecRaceVol == Init /\ [][NextRaceVol]_vars

(***************************************************************************)
(* The request thread inside compareContracts.  The pass reads the shared  *)
(* stores at several places: getContracts (line 28), the two quotes (36,   *)
(* 37), the quotes again and the volatility table inside                   *)
(* calculateFairValue (41), and the volume history three times (53 or 59,  *)
(* 62, 66).  Each read is one step here, and the feed thread may complete  *)
(* a whole updateMarketData between two of them.  `used` records, per      *)
(* symbol, what the pass read where: the prices the fair value was         *)
(* computed from, and the averages behind the liquidity score and the      *)
(* compliance flag.                                                        *)
(***************************************************************************)
\* A whole updateMarketData of the feed thread.
F_UpdateMarketDataWhole(data) ==
    LET st == updateMarketData([nse |-> nse_market_data_, bse |-> bse_market_data_,
                                hv |-> historical_volumes_], data)
    IN  /\ feeder.pc = "idle"
        /\ nse_market_data_' = st.nse
        /\ bse_market_data_' = st.bse
        /\ historical_volumes_' = st.hv
        /\ feed' = feed \o data
        /\ appended' = LogVolumes(appended, data)
        /\ UNCHANGED <<contracts_, implied_volatilities_, config, call, added, budget,
                       threads>>

\* Where the pass goes after an entry: the next contract, or the sort.
NextContract(todo) == IF todo = << >> THEN "sort" ELSE "nse"

\* auto contracts = getContracts(underlying)
P_CompareContracts(underlying, target_quantity) ==
    /\ ReaderFree
    /\ reader' = [pc |-> NextContract(getContracts(contracts_, underlying)),
                  underlying |-> underlying, target_quantity |-> target_quantity,
                  todo |-> getContracts(contracts_, underlying),
                  comparisons |-> << >>, used |-> EmptyMap]
    /\ UNCHANGED <<stores, config, call, history, feeder>>

\* auto nse_data = getMarketData(contract.symbol, "NSE")
P_ReadNse ==
    /\ reader.pc = "nse"
    /\ reader' = [pc |-> "bse", underlying |-> reader.underlying,
                  target_quantity |-> reader.target_quantity, todo |-> reader.todo,
                  comparisons |-> reader.comparisons, used |-> reader.used,
                  nse_data |-> getMarketData(nse_market_data_, bse_market_data_,
                                             Head(reader.todo).symbol, "NSE")]
    /\ UNCHANGED <<stores, config, call, history, feeder>>

\* auto bse_data = getMarketData(contract.symbol, "BSE")
P_ReadBse ==
    /\ reader.pc = "bse"
    /\ reader' = [reader EXCEPT !.pc = "fair"] @@
                 [bse_data |-> getMarketData(nse_market_data_, bse_market_data_,
                                             Head(reader.todo).symbol, "BSE")]
    /\ UNCHANGED <<stores, config, call, history, feeder>>

\* comparison.fair_value = calculateFairValue(contract)
P_FairValue ==
    /\ reader.pc = "fair"
    /\ \E now \in ClockReadings :
          /\ reader' = [reader EXCEPT !.pc = "liquidity"] @@
                       [fair_value |-> calculateFairValue(Engine, Head(reader.todo), now).value,
                        fv_nse_price |-> getMarketData(nse_market_data_, bse_market_data_,
                                                       Head(reader.todo).symbol, "NSE").price,
                        fv_bse_price |-> getMarketData(nse_market_data_, bse_market_data_,
                                                       Head(reader.todo).symbol, "BSE").price]
          /\ implied_volatilities_' = calculateFairValue(Engine, Head(reader.todo), now).iv
    /\ UNCHANGED <<nse_market_data_, bse_market_data_, contracts_, historical_volumes_,
                   config, call, history, feeder>>

\* The choice of the exchange, and calculateLiquidityScore(...,
\* get30DayAverageVolume(contract.symbol)) on its quote.
P_Liquidity ==
    /\ reader.pc = "liquidity"
    /\ reader' = [reader EXCEPT !.pc = "average"] @@
                 [exchange |-> IF DLt(absDiffPct(reader.nse_data.price, reader.fair_value),
                                      absDiffPct(reader.bse_data.price, reader.fair_value))
                               THEN "NSE" ELSE "BSE",
                  liq_average |-> get30DayAverageVolume(historical_volumes_,
                                                        Head(reader.todo).symbol)]
    /\ UNCHANGED <<stores, config, call, history, feeder>>

\* comparison.volume_30day = get30DayAverageVolume(contract.symbol)
P_Average ==
    /\ reader.pc = "average"
    /\ reader' = [reader EXCEPT !.pc = "compliance"] @@
                 [volume_30day |-> get30DayAverageVolume(historical_volumes_,
                                                         Head(reader.todo).symbol)]
    /\ UNCHANGED <<stores, config, call, history, feeder>>

\* The entry of the pass, from what it has read.
passEntry(r, selected_data, volume_compliant) ==
    comparisonOf(Head(r.todo), r.nse_data, r.bse_data, r.fair_value, r.exchange,
                 selected_data, diffPct(selected_data.price, r.fair_value),
                 calculateLiquidityScore(selected_data, r.liq_average),
                 r.volume_30day, volume_compliant, spreadPct(selected_data),
                 calculateImpactCost(selected_data, r.target_quantity))

\* comparison.volume_compliant = checkVolumeConstraints(...), then the
\* spread, the impact cost, the recommendation and the push_back.
P_Compliance ==
    /\ reader.pc = "compliance"
    /\ reader' = [pc |-> NextContract(Tail(reader.todo)),
                  underlying |-> reader.underlying,
                  target_quantity |-> reader.target_quantity,
                  todo |-> Tail(reader.todo),
                  comparisons |->
                     Append(reader.comparisons,
                            passEntry(reader,
                                      IF reader.exchange = "NSE" THEN reader.nse_data
                                      ELSE reader.bse_data,
                                      checkVolumeConstraints(Engine, Head(reader.todo).symbol,
                                                             reader.target_quantity))),
                  used |-> MapPut(reader.used, Head(reader.todo).symbol,
                                  [fv_nse_price |-> reader.fv_nse_price,
                                   fv_bse_price |-> reader.fv_bse_price,
                                   liq_average |-> reader.liq_average,
                                   compliance_average |->
                                      get30DayAverageVolume(historical_volumes_,
                                                            Head(reader.todo).symbol)])]
    /\ UNCHANGED <<stores, config, call, history, feeder>>

\* std::sort and the return.
P_Sort ==
    /\ reader.pc = "sort"
    /\ \E sorted \in sortOutcomes(reader.comparisons) :
          call' = [op |-> "compareContracts",
                   arg |-> <<reader.underlying, reader.target_quantity>>,
                   ret |-> sorted, wrote |-> FALSE, used |-> reader.used]
    /\ reader' = [pc |-> "done"]
    /\ UNCHANGED <<stores, config, history, feeder>>

(***************************************************************************)
(* SpecRaceCmp: a feed thread updating quotes while the request thread     *)
(* compares the contracts of an underlying                                 *)
(***************************************************************************)
RaceContracts == { ContractDetails("A", "NIFTY", "CASH", "CE", 100) }

RaceQuotes == { MarketData("A", e, v) : e \in {"NSE", "BSE"}, v \in QuoteVals }

NextRaceCmp ==
    \/ \E c \in RaceContracts :
          /\ contracts_ = EmptyMap /\ feed = << >> /\ ReaderFree
          /\ AddContract(c)
    \/ \E md \in RaceQuotes :
          /\ Len(feed) < MaxRaceFeeds
          /\ F_UpdateMarketDataWhole(<<md>>)
    \/ \E q \in RankQuantities : P_CompareContracts("NIFTY", q)
    \/ P_ReadNse
    \/ P_ReadBse
    \/ P_FairValue
    \/ P_Liquidity
    \/ P_Average
    \/ P_Compliance
    \/ P_Sort

SpecRaceCmp == Init /\ [][NextRaceCmp]_vars

(***************************************************************************)
(* SpecMD: the quote stores under short feeds                              *)
(***************************************************************************)
MaxFeed == 2

MaxBatch == 2

Batches(quotes) ==
    UNION { [1..n -> quotes] : n \in 1..MaxBatch }

NextMD ==
    \/ \E data \in Batches(FeedQuotes(ContractSymbols)) :
          /\ Len(feed) + Len(data) <= MaxFeed
          /\ UpdateMarketData(data)
    \/ \E s \in ContractSymbols, e \in Exchanges :
          /\ call.wrote
          /\ GetMarketData(s, e)

SpecMD == Init /\ [][NextMD]_vars

(***************************************************************************)
(* SpecReg: the contract registry                                          *)
(***************************************************************************)
MaxAdds == 3

RegContracts ==
    { ContractDetails(s, u, t, "CE", 100) :
        s \in ContractSymbols, u \in Underlyings, t \in {"CASH", "FUTURE", "OPTION"} }

NextReg ==
    \/ \E c \in RegContracts :
          /\ Len(added) < MaxAdds
          /\ AddContract(c)
    \/ \E u \in Underlyings : GetContracts(u)

SpecReg == Init /\ [][NextReg]_vars

(***************************************************************************)
(* Claims: volume history                                                  *)
(***************************************************************************)
Stored(s) == IF Has(historical_volumes_, s) THEN historical_volumes_[s] ELSE << >>

IMin(a, b) == IF a < b THEN a ELSE b

\* The last min(n, 30) volumes appended for s, in arrival order.
Retained(s) ==
    LET n == Len(appended[s])
    IN  SubSeq(appended[s], n - IMin(n, HistoryCap) + 1, n)

\* C1: after any sequence of updateMarketData and updateHistoricalVolume
\* calls, every symbol's stored volume history holds at most 30 samples.
C1_HistoryAtMost30 ==
    \A s \in DOMAIN historical_volumes_ : Len(historical_volumes_[s]) <= HistoryCap

\* A symbol has received more than 30 samples and its history is full.
C1_Witness ==
    \E s \in DOMAIN historical_volumes_ :
        /\ Len(appended[s]) > HistoryCap
        /\ Len(historical_volumes_[s]) = HistoryCap

\* C2: for n appends to one symbol the stored history is the last
\* min(n, 30) appended volumes in arrival order (oldest evicted first).
C2_HistoryIsLastAppended == \A s \in Symbols : Stored(s) = Retained(s)

\* After the 31st append the first sample, which differs from the newest,
\* is the one that is gone.
C2_Witness ==
    \E s \in Symbols :
        /\ Len(appended[s]) = HistoryCap + 1
        /\ appended[s][1] # appended[s][HistoryCap + 1]
        /\ Stored(s) = Tail(appended[s])

\* C5 as stated: the result is the arithmetic mean of the retained samples,
\* that is result * count = sum, and 0 when there is none.
C5_ExactMean ==
    call.op = "get30DayAverageVolume" =>
        LET r == Retained(call.arg[1])
        IN  IF r = << >> THEN call.ret = 0
            ELSE call.ret * Len(r) = SumSeq(r)

\* C5 amended: the result is the arithmetic mean of the retained samples
\* truncated to an integer (the quotient of the unsigned division of the
\* sum by the count), and 0 when there is none.
C5_TruncatedMean ==
    call.op = "get30DayAverageVolume" =>
        LET r == Retained(call.arg[1])
        IN  IF r = << >> THEN call.ret = 0
            ELSE /\ call.ret * Len(r) <= SumSeq(r)
                 /\ SumSeq(r) < (call.ret + 1) * Len(r)

\* The average is taken after an eviction: the evicted sample would have
\* changed the result had it still counted.
C5_Witness ==
    /\ call.op = "get30DayAverageVolume"
    /\ Len(appended[call.arg[1]]) > HistoryCap
    /\ call.ret # SumSeq(appended[call.arg[1]]) \div Len(appended[call.arg[1]])
    /\ call.ret = SumSeq(Retained(call.arg[1])) \div HistoryCap

(***************************************************************************)
(* Claims: quote stores                                                    *)
(***************************************************************************)
Submitted(s, e) == SelectSeq(feed, LAMBDA md : md.symbol = s /\ md.exchange = e)

Stores(e) == e \in {"NSE", "BSE"}

\* C3: getMarketData(s, e), e in {NSE, BSE}, returns the most recently
\* submitted quote for (s, e), every field taken from that one quote.
C3_ReturnsLastSubmitted ==
    (/\ call.op = "getMarketData"
     /\ Stores(call.arg[2])
     /\ Submitted(call.arg[1], call.arg[2]) # << >>)
    => call.ret = Submitted(call.arg[1], call.arg[2])[Len(Submitted(call.arg[1], call.arg[2]))]

\* One batch carried two different quotes for the same (s, e); the later
\* one is returned.
C3_Witness ==
    /\ call.op = "getMarketData"
    /\ Stores(call.arg[2])
    /\ budget.calls = 1
    /\ Len(Submitted(call.arg[1], call.arg[2])) = 2
    /\ Submitted(call.arg[1], call.arg[2])[1] # Submitted(call.arg[1], call.arg[2])[2]
    /\ call.ret = Submitted(call.arg[1], call.arg[2])[2]

\* C4: with no quote ever stored for (s, e), getMarketData(s, e) returns a
\* sentinel carrying s and e with price, bid, ask, volume and open interest 0.
C4_SentinelWhenAbsent ==
    (/\ call.op = "getMarketData"
     /\ ~(Stores(call.arg[2]) /\ Submitted(call.arg[1], call.arg[2]) # << >>))
    => /\ call.ret.symbol = call.arg[1]
       /\ call.ret.exchange = call.arg[2]
       /\ call.ret.price = 0 /\ call.ret.bid = 0 /\ call.ret.ask = 0
       /\ call.ret.volume = 0 /\ call.ret.open_interest = 0

\* The sentinel is returned for a pair with no quote while the same symbol
\* has a quote on the other venue.
C4_Witness ==
    /\ call.op = "getMarketData"
    /\ call.arg[2] = "BSE"
    /\ Submitted(call.arg[1], "BSE") = << >>
    /\ Submitted(call.arg[1], "NSE") # << >>
    /\ call.ret = EmptyData(call.arg[1], "BSE")

(***************************************************************************)
(* Claims: contract registry                                               *)
(***************************************************************************)
AddedFor(s) == SelectSeq(added, LAMBDA c : c.symbol = s)

\* The most recently added version of every symbol ever added.
LatestAdded == { AddedFor(s)[Len(AddedFor(s))] : s \in {c.symbol : c \in {added[i] : i \in 1..Len(added)}} }

Range(seq) == { seq[i] : i \in 1..Len(seq) }

\* C9: getContracts(u) returns exactly the contracts whose most recently
\* added version has underlying u, each symbol at most once.
C9_ContractsOfUnderlying ==
    call.op = "getContracts" =>
        /\ Range(call.ret) = { c \in LatestAdded : c.underlying = call.arg[1] }
        /\ \A i, j \in 1..Len(call.ret) : call.ret[i].symbol = call.ret[j].symbol => i = j

\* A symbol was re-added under another underlying and is no longer listed
\* under the old one, which still lists another contract.
C9_Witness ==
    /\ call.op = "getContracts"
    /\ Len(call.ret) > 0
    /\ \E i, j \in 1..Len(added) :
          /\ i < j
          /\ added[i].symbol = added[j].symbol
          /\ added[i].underlying = call.arg[1]
          /\ added[j].underlying # call.arg[1]
          /\ added[j] \in LatestAdded
          /\ \A c \in Range(call.ret) : c.symbol # added[i].symbol


(***************************************************************************)
(* Claims: reads and ranking                                               *)
(***************************************************************************)
ReadOps ==
    {"compareContracts", "findOptimalContract", "calculateFairValue",
     "checkVolumeConstraints", "getMarketData", "getContracts",
     "get30DayAverageVolume"}

\* C8: the read operations leave the quote stores, the contract registry,
\* the volume histories and the implied-volatility table unchanged, also
\* when the queried symbol or underlying has no entry.
C8_ReadsChangeNothing ==
    [][call'.op \in ReadOps =>
         UNCHANGED <<nse_market_data_, bse_market_data_, contracts_,
                     historical_volumes_, implied_volatilities_>>]_vars

\* C10: the sequence compareContracts returns is ordered by non-decreasing
\* |percentage_diff|: no entry is followed by one whose absolute deviation
\* is strictly smaller (an entry whose deviation is NaN, which compares
\* with nothing, is not itself taken to break the order).
C10_RankedByAbsDiff ==
    call.op = "compareContracts" =>
        \A i, j \in 1..Len(call.ret) :
            i < j => ~DLt(DAbs(call.ret[j].percentage_diff),
                          DAbs(call.ret[i].percentage_diff))


(***************************************************************************)
(* Claims: concurrent readers                                              *)
(***************************************************************************)
\* C6: with updateMarketData on one thread and getMarketData on another,
\* the reader never obtains a quote whose members come from two different
\* updates: the members that are set at all (that differ from those of a
\* freshly created entry) all agree with one single submitted quote, or the
\* quote is the sentinel.
C6_NoMixOfTwoUpdates ==
    call.op = "getMarketData" =>
        \E q \in Range(feed) \cup {EmptyData(call.arg[1], call.arg[2])} :
            \A i \in 1..Len(Fields) :
                \/ call.ret[Fields[i]] = q[Fields[i]]
                \/ call.ret[Fields[i]] = ZeroData[Fields[i]]

\* C6 read strictly: the quote obtained is, in its entirety, the sentinel
\* or one submitted quote (this also rules out a half-assigned new entry).
C6_ReaderSeesWholeQuote ==
    call.op = "getMarketData" =>
        \/ call.ret = EmptyData(call.arg[1], call.arg[2])
        \/ call.ret \in Range(feed)

\* The average of the history of s as it stood after the first k appends.
AvgAfter(s, k) ==
    LET log == SubSeq(appended[s], 1, k)
        kept == SubSeq(log, k - IMin(k, HistoryCap) + 1, k)
    IN  IF kept = << >> THEN 0 ELSE SumSeq(kept) \div Len(kept)

\* C7: an append concurrent with get30DayAverageVolume(s) is atomic for
\* the reader: the average returned is that of the history entirely before
\* or entirely after an append, and never taken over 31 samples.
C7_AppendAtomicForReader ==
    call.op = "get30DayAverageVolume" =>
        /\ call.ret \in { AvgAfter(call.arg[1], k) : k \in 0..Len(appended[call.arg[1]]) }
        /\ call.seen <= HistoryCap

\* The second half of C7 alone: the sum is never taken over 31 samples.
C7_NeverSees31Samples ==
    call.op = "get30DayAverageVolume" => call.seen <= HistoryCap

(***************************************************************************)
(* Claims: venue selection, recommendation, optimal contract               *)
(***************************************************************************)
\* |price - fair_value|
Distance(price, fair_value) == DAbs(DSub(price, fair_value))

\* C11: for each contract compareContracts selects the venue whose price
\* has the smaller absolute distance to the fair value: NSE when
\* |nse_price - fair_value| < |bse_price - fair_value|, BSE when it is larger.
C11_SelectsCloserVenue ==
    call.op = "compareContracts" =>
        \A i \in 1..Len(call.ret) :
            /\ DLt(Distance(call.ret[i].nse_price, call.ret[i].fair_value),
                   Distance(call.ret[i].bse_price, call.ret[i].fair_value))
                 => call.ret[i].exchange = "NSE"
            /\ DLt(Distance(call.ret[i].bse_price, call.ret[i].fair_value),
                   Distance(call.ret[i].nse_price, call.ret[i].fair_value))
                 => call.ret[i].exchange = "BSE"

\* C12: in every entry compareContracts produces, is_recommended is true
\* if and only if |percentage_diff| < 0.5, liquidity_score > 0.6, the
\* contract is volume compliant for the caller's target quantity, and
\* bid_ask_spread < 1.0, all four together.
C12_RecommendedIffAllFour ==
    call.op = "compareContracts" =>
        \A i \in 1..Len(call.ret) :
            call.ret[i].is_recommended <=>
                /\ DLt(DAbs(call.ret[i].percentage_diff), Fin(1, 2))
                /\ DLt(Fin(3, 5), call.ret[i].liquidity_score)
                /\ checkVolumeConstraints(Engine, call.ret[i].symbol, call.arg[2])
                /\ DLt(call.ret[i].bid_ask_spread, D(1))

\* A comparison with a recommended entry next to one that is not.
C12_Witness ==
    /\ call.op = "compareContracts"
    /\ \E i, j \in 1..Len(call.ret) :
          /\ call.ret[i].is_recommended
          /\ ~call.ret[j].is_recommended

\* The entries compareContracts(underlying, q) holds for one instrument
\* class, computed from the engine as it stands.
ClassEntries(underlying, instrument_type, target_quantity) ==
    { e \in Range(compareContracts(Engine, underlying, target_quantity, 0).comparisons) :
        e.instrument_type = instrument_type }

\* C13: when some contract of the underlying has the requested class,
\* findOptimalContract returns an entry of that class whose
\* |percentage_diff| is minimal among the entries of that class: it is not
\* larger than the deviation of any entry of the class that has one (an
\* entry whose deviation is NaN sets no bound).
C13_OptimalIsMinimalOfClass ==
    (/\ call.op = "findOptimalContract"
     /\ ClassEntries(call.arg[1], call.arg[2], call.arg[3]) # {})
    => /\ call.ret \in ClassEntries(call.arg[1], call.arg[2], call.arg[3])
       /\ \A e \in ClassEntries(call.arg[1], call.arg[2], call.arg[3]) :
             ~DIsNaN(e.percentage_diff)
                => DLe(DAbs(call.ret.percentage_diff), DAbs(e.percentage_diff))

\* C14: when no contract of the underlying has the requested class (also
\* when the underlying has no contract at all), findOptimalContract returns
\* the not-found result: empty symbol, zero numeric fields, is_recommended
\* false; and a found result is never equal to it.
C14_NotFoundIsEmpty ==
    call.op = "findOptimalContract" =>
        IF ClassEntries(call.arg[1], call.arg[2], call.arg[3]) = {}
        THEN /\ call.ret.symbol = "" /\ call.ret.instrument_type = ""
             /\ call.ret.exchange = ""
             /\ call.ret.is_recommended = FALSE
             /\ call.ret.volume_compliant = FALSE
             /\ \A f \in {"nse_price", "bse_price", "fair_value", "percentage_diff",
                          "liquidity_score", "bid_ask_spread", "impact_cost"} :
                   call.ret[f] = D(0)
             /\ \A f \in {"volume_30day", "current_volume", "open_interest"} :
                   call.ret[f] = 0
        ELSE call.ret # EmptyComparison

\* The underlying has contracts, none of the requested class, and the
\* not-found result is returned.
C14_Witness ==
    /\ call.op = "findOptimalContract"
    /\ getContracts(contracts_, call.arg[1]) # << >>
    /\ ClassEntries(call.arg[1], call.arg[2], call.arg[3]) = {}
    /\ call.ret = EmptyComparison

(***************************************************************************)
(* Claims: compliance, liquidity, fair value, margin                       *)
(***************************************************************************)
\* The truncated mean of the samples retained for s, from the log of appends.
AverageOf(s) ==
    IF Retained(s) = << >> THEN 0 ELSE SumSeq(Retained(s)) \div Len(Retained(s))

\* quantity <= average * threshold, over the integers.
WithinShare(quantity, average, threshold) ==
    quantity.n * threshold.d <= average * threshold.n * quantity.d

\* C15: checkVolumeConstraints(s, quantity) is true exactly when
\* quantity <= averageVolume(s) * volumeThreshold, the threshold being the
\* one most recently set (0.05 at the start); with average volume 0 it is
\* true for quantity 0 only.
C15_CompliantWithinShare ==
    /\ volume_threshold_ = Fin(5, 100)
    /\ [][/\ call'.op = "setVolumeThreshold" => volume_threshold_' = call'.arg[1]
          /\ call'.op # "setVolumeThreshold" => UNCHANGED volume_threshold_]_vars
    /\ [](call.op = "checkVolumeConstraints" =>
            /\ call.ret <=> WithinShare(call.arg[2], AverageOf(call.arg[1]),
                                        volume_threshold_)
            /\ AverageOf(call.arg[1]) = 0 => (call.ret <=> call.arg[2] = D(0)))

\* With average 10000 and the default 5%, quantity 400 was found compliant.
C15_Witness ==
    /\ call.op = "checkVolumeConstraints"
    /\ AverageOf(call.arg[1]) = 10000
    /\ volume_threshold_ = Fin(5, 100)
    /\ call.arg[2] = D(400)
    /\ call.ret = TRUE

\* With the same average and threshold, quantity 600 was found not compliant.
C15_WitnessOver ==
    /\ call.op = "checkVolumeConstraints"
    /\ AverageOf(call.arg[1]) = 10000
    /\ volume_threshold_ = Fin(5, 100)
    /\ call.arg[2] = D(600)
    /\ call.ret = FALSE

\* 0.4*volumeRatio + 0.3*oiFactor + 0.3*spreadFactor, volumeRatio given.
WeightedScore(data, volume_ratio) ==
    DDiv(DAdd(DAdd(DMul(D(4), volume_ratio),
                   DMul(D(3), DMin(D(1), DDiv(D(data.open_interest), D(1000000))))),
              DDiv(D(3), DAdd(D(1), DDiv(DMul(DSub(D(data.ask), D(data.bid)), D(100)),
                                         D(data.price))))),
         D(10))

\* C16 as stated: the score is the weighted sum, and with a 30-day average
\* of 0 only volumeRatio is taken as 0, the score then being
\* 0.3*oiFactor + 0.3*spreadFactor.
C16_WeightedSumRatioZero ==
    call.op = "calculateLiquidityScore" =>
        call.ret = WeightedScore(call.arg[1],
                                 IF call.arg[2] = 0 THEN D(0)
                                 ELSE DDiv(D(call.arg[1].volume), D(call.arg[2])))

\* C16 amended: with a positive 30-day average the score is the weighted
\* sum; with a 30-day average of 0 the score is 0 altogether.  Volume 5000,
\* average 10000, OI 500000, price 100, bid 99, ask 101 give 0.45.
C16_WeightedSumOrZero ==
    call.op = "calculateLiquidityScore" =>
        /\ call.arg[2] = 0 => call.ret = D(0)
        /\ call.arg[2] # 0 =>
              call.ret = WeightedScore(call.arg[1],
                                       DDiv(D(call.arg[1].volume), D(call.arg[2])))
        /\ (/\ call.arg[1].volume = 5000 /\ call.arg[2] = 10000
            /\ call.arg[1].open_interest = 500000 /\ call.arg[1].price = 100
            /\ call.arg[1].bid = 99 /\ call.arg[1].ask = 101)
              => call.ret = Fin(45, 100)

\* A quote with open interest and a finite spread, scored 0 because the
\* 30-day average is 0.
C16_Witness ==
    /\ call.op = "calculateLiquidityScore"
    /\ call.arg[2] = 0
    /\ call.arg[1].open_interest > 0
    /\ call.arg[1].price > 0
    /\ call.ret = D(0)

\* max(0, a - b) of two finite numbers, over the integers.
PositivePart(a, b) ==
    IF a.n * b.d > b.n * a.d THEN Fin(a.n * b.d - b.n * a.d, a.d * b.d) ELSE D(0)

\* C17: with time to expiry T <= 0, calculateOptionFairValue returns the
\* intrinsic value, max(0, S-K) for "CE" and max(0, K-S) for a put, whatever
\* the rate and the volatility, the closed form not being evaluated.
C17_IntrinsicAtExpiry ==
    (/\ call.op = "calculateOptionFairValue"
     /\ call.arg[3].k = "fin" /\ call.arg[3].n <= 0)
    => /\ call.ret.k = "fin"
       /\ call.arg[6] = "CE" => call.ret = PositivePart(call.arg[1], call.arg[2])
       /\ call.arg[6] # "CE" => call.ret = PositivePart(call.arg[2], call.arg[1])

\* An in-the-money put exactly at expiry, volatility 0, valued at K - S.
C17_Witness ==
    /\ call.op = "calculateOptionFairValue"
    /\ call.arg[3] = D(0)
    /\ call.arg[5] = D(0)
    /\ call.arg[6] = "PE"
    /\ call.arg[1] = D(90)
    /\ call.ret = D(10)

\* C18: calculateGreeks with time to expiry T <= 0 returns delta, gamma,
\* theta, vega and rho all 0, for every spot, strike, rate, volatility and
\* option right; rho is 0 for every input.
C18_GreeksZeroAtExpiry ==
    call.op = "calculateGreeks" =>
        /\ call.ret.rho = D(0)
        /\ (call.arg[3].k = "fin" /\ call.arg[3].n <= 0) =>
              \A g \in {"delta", "gamma", "theta", "vega", "rho"} : call.ret[g] = D(0)

\* Greeks asked exactly at expiry with volatility 0: all five are 0.
C18_Witness ==
    /\ call.op = "calculateGreeks"
    /\ call.arg[3] = D(0)
    /\ call.arg[5] = D(0)
    /\ \A g \in {"delta", "gamma", "theta", "vega", "rho"} : call.ret[g] = D(0)

\* The last price and volume stored for (s, e): those of the last quote
\* submitted, 0 and 0 when there is none.
LastPrice(s, e) ==
    IF Submitted(s, e) = << >> THEN 0 ELSE Submitted(s, e)[Len(Submitted(s, e))].price

LastVolume(s, e) ==
    IF Submitted(s, e) = << >> THEN 0 ELSE Submitted(s, e)[Len(Submitted(s, e))].volume

\* C19: for a CASH contract calculateFairValue returns
\* (pNSE*vNSE + pBSE*vBSE)/(vNSE + vBSE) over the stored last prices and
\* volumes when the total volume is positive, and (pNSE + pBSE)/2 when it
\* is 0; the result is a number in both cases.
C19_CashFairValue ==
    (call.op = "calculateFairValue" /\ call.arg[1].instrument_type = "CASH") =>
        /\ call.ret.k = "fin"
        /\ LastVolume(call.arg[1].symbol, "NSE") + LastVolume(call.arg[1].symbol, "BSE") > 0
             => call.ret =
                  Fin(LastPrice(call.arg[1].symbol, "NSE") * LastVolume(call.arg[1].symbol, "NSE")
                        + LastPrice(call.arg[1].symbol, "BSE") * LastVolume(call.arg[1].symbol, "BSE"),
                      LastVolume(call.arg[1].symbol, "NSE") + LastVolume(call.arg[1].symbol, "BSE"))
        /\ LastVolume(call.arg[1].symbol, "NSE") + LastVolume(call.arg[1].symbol, "BSE") = 0
             => call.ret =
                  Fin(LastPrice(call.arg[1].symbol, "NSE") + LastPrice(call.arg[1].symbol, "BSE"), 2)

\* Both venues quote A without traded volume, at 100 and 102: the fair
\* value is the simple average 101.
C19_Witness ==
    /\ call.op = "calculateFairValue"
    /\ call.arg[1].instrument_type = "CASH"
    /\ LastVolume(call.arg[1].symbol, "NSE") = 0
    /\ LastVolume(call.arg[1].symbol, "BSE") = 0
    /\ LastPrice(call.arg[1].symbol, "NSE") = 100
    /\ LastPrice(call.arg[1].symbol, "BSE") = 102
    /\ call.ret = D(101)

\* The venues trade different volumes at different prices: the fair value
\* is the weighted average, here (100*10 + 102*0)/10 = 100.
C19_WitnessWeighted ==
    /\ call.op = "calculateFairValue"
    /\ call.arg[1].instrument_type = "CASH"
    /\ LastVolume(call.arg[1].symbol, "NSE") = 10
    /\ LastVolume(call.arg[1].symbol, "BSE") = 0
    /\ LastPrice(call.arg[1].symbol, "NSE") = 100
    /\ LastPrice(call.arg[1].symbol, "BSE") = 102
    /\ call.ret = D(100)

\* The per-position margins of the statement, in whole units: premium plus
\* 10% of reference price times lot for an OPTION, 10% of it for a FUTURE,
\* nothing for another class; 5% of it for every class.
SpanOf(position) ==
    IF position.contract.instrument_type = "OPTION"
    THEN position.market_data.price + (100 * position.contract.lot_size * 10) \div 100
    ELSE IF position.contract.instrument_type = "FUTURE"
    THEN (100 * position.contract.lot_size * 10) \div 100
    ELSE 0

ExposureOf(position) == (100 * position.contract.lot_size * 5) \div 100

\* C20: calculateMargin(positions) returns span_margin equal to the sum of
\* the per-position span margins, exposure_margin equal to the sum over all
\* positions, whatever their class, of 5% of reference price times lot, and
\* total_margin equal to their sum; all three are 0 for no position.
C20_MarginIsSumOverPositions ==
    call.op = "calculateMargin" =>
        LET positions == call.arg[1]
            span == SumSeq([i \in 1..Len(positions) |-> SpanOf(positions[i])])
            exposure == SumSeq([i \in 1..Len(positions) |-> ExposureOf(positions[i])])
        IN  /\ call.ret.span_margin = D(span)
            /\ call.ret.exposure_margin = D(exposure)
            /\ call.ret.total_margin = D(span + exposure)
            /\ positions = << >> =>
                  /\ call.ret.span_margin = D(0)
                  /\ call.ret.exposure_margin = D(0)
                  /\ call.ret.total_margin = D(0)

\* A portfolio of an option with a premium and a cash position: the cash
\* position adds to the exposure margin only.
C20_Witness ==
    /\ call.op = "calculateMargin"
    /\ call.arg[1] = <<OptionContract("OPTION", 50, 120), OptionContract("CASH", 50, 120)>>
    /\ call.ret.span_margin = D(620)
    /\ call.ret.exposure_margin = D(500)
    /\ call.ret.total_margin = D(1120)

(***************************************************************************)
(* Claims: guarded divisions                                               *)
(***************************************************************************)
\* (quantity/volume) * (ask-bid)/price * 100 for a positive volume and
\* price, over the integers.
ImpactOf(data, quantity) ==
    Fin(quantity.n * (data.ask - data.bid) * 100, quantity.d * data.volume * data.price)

\* C21: calculateImpactCost(data, quantity) guards the division by the
\* current volume: with data.volume 0 it returns a defined number (never
\* NaN, never the infinity of a division by zero); otherwise it returns
\* (quantity/volume) * (ask-bid)/price*100.
C21_ImpactCostGuarded ==
    call.op = "calculateImpactCost" =>
        /\ call.arg[1].volume = 0 => call.ret.k = "fin"
        /\ (call.arg[1].volume > 0 /\ call.arg[1].price > 0) =>
              call.ret = ImpactOf(call.arg[1], call.arg[2])

\* The second half of C21 alone: with a positive volume and price the
\* result is (quantity/volume) * (ask-bid)/price*100.
C21_FormulaOnTradedQuote ==
    (/\ call.op = "calculateImpactCost"
     /\ call.arg[1].volume > 0 /\ call.arg[1].price > 0)
    => call.ret = ImpactOf(call.arg[1], call.arg[2])

(***************************************************************************)
(* Claims: put-call parity                                                 *)
(***************************************************************************)
\* The value calculateOptionFairValue gives the option of the other right
\* for the arguments of the last call.
OtherRight(option_type) ==
    calculateOptionFairValue(call.arg[1], call.arg[2], call.arg[3], call.arg[4],
                             call.arg[5], option_type)

Quoted(s, e) ==
    IF e = "NSE" THEN Has(nse_market_data_, s) /\ nse_market_data_[s].price > 0
    ELSE Has(bse_market_data_, s) /\ bse_market_data_[s].price > 0

\* Nothing is stored for (s, e).
NoData(s, e) ==
    IF e = "NSE" THEN ~Has(nse_market_data_, s) ELSE ~Has(bse_market_data_, s)

\* C23: compareContracts treats a zero price as "no data": when exactly
\* one venue has a stored quote (positive price) for a contract and the
\* other venue has none, the venue without data is never the selected
\* exchange, and percentage_diff is taken from the quoted price, never
\* from the zero price of the venue without data.
C23_NoDataVenueNotSelected ==
    call.op = "compareContracts" =>
        \A i \in 1..Len(call.ret) :
            /\ (Quoted(call.ret[i].symbol, "NSE") /\ NoData(call.ret[i].symbol, "BSE"))
                 => /\ call.ret[i].exchange = "NSE"
                    /\ call.ret[i].percentage_diff
                         = DMul(DDiv(DSub(call.ret[i].nse_price, call.ret[i].fair_value),
                                     call.ret[i].fair_value), D(100))
            /\ (Quoted(call.ret[i].symbol, "BSE") /\ NoData(call.ret[i].symbol, "NSE"))
                 => /\ call.ret[i].exchange = "BSE"
                    /\ call.ret[i].percentage_diff
                         = DMul(DDiv(DSub(call.ret[i].bse_price, call.ret[i].fair_value),
                                     call.ret[i].fair_value), D(100))

\* C24: every division performed inside compareContracts is guarded: also
\* for a contract without a stored quote on either venue, with fair value
\* 0, or whose selected quote has price 0, the percentage_diff,
\* bid_ask_spread, liquidity_score and impact_cost of the entry are defined
\* numbers (neither NaN nor the infinity of a division by zero).
C24_DivisionsGuarded ==
    call.op = "compareContracts" =>
        \A i \in 1..Len(call.ret) :
            \A f \in {"percentage_diff", "bid_ask_spread", "liquidity_score", "impact_cost"} :
                call.ret[i][f].k = "fin"

(***************************************************************************)
(* Claims: the selected venue                                              *)
(***************************************************************************)
\* The quote getMarketData gives for the venue an entry names.
SelectedQuote(entry) ==
    getMarketData(nse_market_data_, bse_market_data_, entry.symbol, entry.exchange)

SelectedPrice(entry) ==
    IF entry.exchange = "NSE" THEN entry.nse_price ELSE entry.bse_price

\* C25: every entry of compareContracts is consistent with its selected
\* venue: percentage_diff is (selectedPrice - fair_value)/fair_value*100
\* with selectedPrice the nse_price for NSE and the bse_price for BSE, and
\* current_volume, open_interest, liquidity_score, bid_ask_spread and
\* impact_cost are those of the quote of that same venue.
C25_ConsistentWithSelectedVenue ==
    call.op = "compareContracts" =>
        \A i \in 1..Len(call.ret) :
            /\ call.ret[i].exchange \in {"NSE", "BSE"}
            /\ SelectedPrice(call.ret[i]) = D(SelectedQuote(call.ret[i]).price)
            /\ call.ret[i].percentage_diff
                  = DMul(DDiv(DSub(SelectedPrice(call.ret[i]), call.ret[i].fair_value),
                              call.ret[i].fair_value), D(100))
            /\ call.ret[i].current_volume = SelectedQuote(call.ret[i]).volume
            /\ call.ret[i].open_interest = SelectedQuote(call.ret[i]).open_interest
            /\ call.ret[i].liquidity_score
                  = calculateLiquidityScore(SelectedQuote(call.ret[i]), call.ret[i].volume_30day)
            /\ call.ret[i].bid_ask_spread
                  = DMul(DDiv(D(SelectedQuote(call.ret[i]).ask - SelectedQuote(call.ret[i]).bid),
                              D(SelectedQuote(call.ret[i]).price)), D(100))
            /\ call.ret[i].impact_cost
                  = calculateImpactCost(SelectedQuote(call.ret[i]), call.arg[2])

\* A contract quoted differently on the two venues for which BSE is
\* selected: volume, open interest and spread are those of the BSE quote.
C25_Witness ==
    /\ call.op = "compareContracts"
    /\ \E i \in 1..Len(call.ret) :
          /\ call.ret[i].exchange = "BSE"
          /\ Quoted(call.ret[i].symbol, "NSE") /\ Quoted(call.ret[i].symbol, "BSE")
          /\ nse_market_data_[call.ret[i].symbol].volume
               # bse_market_data_[call.ret[i].symbol].volume
          /\ call.ret[i].current_volume = bse_market_data_[call.ret[i].symbol].volume
          /\ call.ret[i].percentage_diff = D(0)
          /\ call.ret[i].bid_ask_spread = Fin(300, 102)

\* The same contract with NSE selected: the figures are those of the NSE quote.
C25_WitnessNse ==
    /\ call.op = "compareContracts"
    /\ \E i \in 1..Len(call.ret) :
          /\ call.ret[i].exchange = "NSE"
          /\ Quoted(call.ret[i].symbol, "NSE") /\ Quoted(call.ret[i].symbol, "BSE")
          /\ nse_market_data_[call.ret[i].symbol].volume
               # bse_market_data_[call.ret[i].symbol].volume
          /\ call.ret[i].current_volume = nse_market_data_[call.ret[i].symbol].volume
          /\ call.ret[i].bid_ask_spread = D(2)

(***************************************************************************)
(* Claims: one snapshot for each entry                                     *)
(***************************************************************************)
\* C26: each compareContracts entry is computed over one snapshot even
\* when updateMarketData interleaves with the pass: the nse_price and
\* bse_price recorded in the entry are the prices the fair value was
\* computed from, and volume_30day is the average used for the entry's
\* liquidity_score and for its volume_compliant flag.
C26_EntryOverOneSnapshot ==
    call.op = "compareContracts" =>
        \A i \in 1..Len(call.ret) :
            /\ call.ret[i].nse_price = D(call.used[call.ret[i].symbol].fv_nse_price)
            /\ call.ret[i].bse_price = D(call.used[call.ret[i].symbol].fv_bse_price)
            /\ call.ret[i].volume_30day = call.used[call.ret[i].symbol].liq_average
            /\ call.ret[i].volume_30day = call.used[call.ret[i].symbol].compliance_average

\* The first half of C26 alone: the recorded prices are those the fair
\* value was computed from.
C26_PricesOfFairValue ==
    call.op = "compareContracts" =>
        \A i \in 1..Len(call.ret) :
            /\ call.ret[i].nse_price = D(call.used[call.ret[i].symbol].fv_nse_price)
            /\ call.ret[i].bse_price = D(call.used[call.ret[i].symbol].fv_bse_price)

\* The second half of C26 alone: one average behind volume_30day, the
\* liquidity score and the compliance flag.
C26_OneAverage ==
    call.op = "compareContracts" =>
        \A i \in 1..Len(call.ret) :
            /\ call.ret[i].volume_30day = call.used[call.ret[i].symbol].liq_average
            /\ call.ret[i].volume_30day = call.used[call.ret[i].symbol].compliance_average

(***************************************************************************)
(* Claims: one entry for each contract                                     *)
(***************************************************************************)
\* The symbols registered for an underlying.
RegisteredFor(underlying) ==
    { sym \in DOMAIN contracts_ : contracts_[sym].underlying = underlying }

\* C27: compareContracts(underlying, q) returns exactly one entry for each
\* contract registered for that underlying and no other entry, whether or
\* not a quote exists for the contract: the symbols of the result, each
\* occurring once, are those of getContracts(underlying); an underlying
\* without contracts yields an empty result.
C27_OneEntryPerContract ==
    call.op = "compareContracts" =>
        /\ { call.ret[i].symbol : i \in 1..Len(call.ret) } = RegisteredFor(call.arg[1])
        /\ { call.ret[i].symbol : i \in 1..Len(call.ret) }
             = { c.symbol : c \in Range(getContracts(contracts_, call.arg[1])) }
        /\ Len(call.ret) = Cardinality(RegisteredFor(call.arg[1]))
        /\ RegisteredFor(call.arg[1]) = {} => call.ret = << >>

\* Two contracts of the underlying, one quoted and one without any quote:
\* the result has an entry for each.
C27_Witness ==
    /\ call.op = "compareContracts"
    /\ Len(call.ret) = 2
    /\ \E i, j \in 1..2 :
          /\ Has(nse_market_data_, call.ret[i].symbol)
          /\ ~Has(nse_market_data_, call.ret[j].symbol)
          /\ ~Has(bse_market_data_, call.ret[j].symbol)

\* Contracts are registered, none for the underlying asked: the result is empty.
C27_WitnessEmpty ==
    /\ call.op = "compareContracts"
    /\ contracts_ # EmptyMap
    /\ call.ret = << >>

(***************************************************************************)
(* Claims: what updateMarketData changes                                   *)
(***************************************************************************)
\* The volumes of the quotes of a batch that name symbol s, in batch order.
VolumesFor(data, s) ==
    LET quotes == SelectSeq(data, LAMBDA md : md.symbol = s)
    IN  [i \in 1..Len(quotes) |-> quotes[i].volume]

\* The last min(Len(seq), 30) elements of seq.
LastOnes(seq) == SubSeq(seq, Len(seq) - IMin(Len(seq), HistoryCap) + 1, Len(seq))

\* C28: updateMarketData appends one volume sample to the symbol's single
\* history for every quote of the batch, whatever its exchange: NSE and BSE
\* quotes of one symbol feed the same history, and a quote whose exchange
\* is neither "NSE" nor "BSE" changes neither quote store but still
\* appends its volume.
C28_EveryQuoteFeedsHistory ==
    [][call'.op = "updateMarketData" =>
         /\ \A s \in Symbols :
               (IF Has(historical_volumes_', s) THEN historical_volumes_'[s] ELSE << >>)
                 = LastOnes(Stored(s) \o VolumesFor(call'.arg, s))
         /\ (\A i \in 1..Len(call'.arg) : call'.arg[i].exchange \notin {"NSE", "BSE"})
               => UNCHANGED <<nse_market_data_, bse_market_data_>>]_vars

\* A quote of an exchange that has no store was submitted for a symbol
\* that has no stored quote at all, and its volume is in the history.
C28_Witness ==
    /\ call.op = "updateMarketData"
    /\ \E i \in 1..Len(call.arg) :
          /\ call.arg[i].exchange = "MCX"
          /\ ~Has(nse_market_data_, call.arg[i].symbol)
          /\ ~Has(bse_market_data_, call.arg[i].symbol)
          /\ Stored(call.arg[i].symbol) = <<call.arg[i].volume>>

\* An NSE quote and a BSE quote of one symbol, with different volumes,
\* arrived in one batch: the symbol's history holds both, in batch order.
C28_WitnessShared ==
    /\ call.op = "updateMarketData"
    /\ Len(call.arg) = 2
    /\ call.arg[1].symbol = call.arg[2].symbol
    /\ call.arg[1].exchange = "NSE" /\ call.arg[2].exchange = "BSE"
    /\ call.arg[1].volume # call.arg[2].volume
    /\ Stored(call.arg[1].symbol) = <<call.arg[1].volume, call.arg[2].volume>>

(***************************************************************************)
(* Claims: ties between the venues                                         *)
(***************************************************************************)
\* C29: the choice of the venue in compareContracts is deterministic on
\* exact ties: when |nse_price - fair_value| equals |bse_price - fair_value|
\* (both venues at one price, or no quote on either, included), the
\* selected exchange is BSE, never NSE.
C29_TieSelectsBse ==
    call.op = "compareContracts" =>
        \A i \in 1..Len(call.ret) :
            Distance(call.ret[i].nse_price, call.ret[i].fair_value)
                = Distance(call.ret[i].bse_price, call.ret[i].fair_value)
            => call.ret[i].exchange = "BSE"

\* A contract quoted at one price on both venues, away from its fair value.
C29_Witness ==
    /\ call.op = "compareContracts"
    /\ \E i \in 1..Len(call.ret) :
          /\ Quoted(call.ret[i].symbol, "NSE") /\ Quoted(call.ret[i].symbol, "BSE")
          /\ call.ret[i].nse_price = call.ret[i].bse_price
          /\ call.ret[i].fair_value.k = "fin"
          /\ call.ret[i].fair_value # call.ret[i].nse_price
          /\ call.ret[i].exchange = "BSE"

\* A contract with no quote on either venue.
C29_WitnessNoQuote ==
    /\ call.op = "compareContracts"
    /\ \E i \in 1..Len(call.ret) :
          /\ NoData(call.ret[i].symbol, "NSE") /\ NoData(call.ret[i].symbol, "BSE")
          /\ call.ret[i].exchange = "BSE"

\* Two different prices at the same distance on either side of the fair value.
C29_WitnessAcross ==
    /\ call.op = "compareContracts"
    /\ \E i \in 1..Len(call.ret) :
          /\ call.ret[i].nse_price # call.ret[i].bse_price
          /\ call.ret[i].fair_value.k = "fin"
          /\ Distance(call.ret[i].nse_price, call.ret[i].fair_value)
                = Distance(call.ret[i].bse_price, call.ret[i].fair_value)
          /\ call.ret[i].exchange = "BSE"

(***************************************************************************)
(* Claims: what updateMarketData leaves alone                              *)
(***************************************************************************)
\* The entry of key k in map m, as a sequence of at most one element.
EntryAt(m, k) == IF Has(m, k) THEN <<m[k]>> ELSE << >>

\* The batch has a quote for symbol s on exchange e.
Names(data, s, e) == \E i \in 1..Len(data) : data[i].symbol = s /\ data[i].exchange = e

\* The batch has a quote for symbol s.
NamesSymbol(data, s) == \E i \in 1..Len(data) : data[i].symbol = s

\* C30: updateMarketData changes only what its batch names: a quote for
\* (s, NSE) leaves the stored BSE quote of s and the stored quotes and
\* volume histories of every other symbol unchanged, and no call changes
\* the contract registry, the risk-free rate, the volume threshold or the
\* implied-volatility table.
C30_UpdateChangesOnlyNamed ==
    [][call'.op = "updateMarketData" =>
         /\ \A s \in Symbols :
               /\ ~Names(call'.arg, s, "NSE")
                     => EntryAt(nse_market_data_', s) = EntryAt(nse_market_data_, s)
               /\ ~Names(call'.arg, s, "BSE")
                     => EntryAt(bse_market_data_', s) = EntryAt(bse_market_data_, s)
               /\ ~NamesSymbol(call'.arg, s)
                     => EntryAt(historical_volumes_', s) = EntryAt(historical_volumes_, s)
         /\ UNCHANGED <<contracts_, risk_free_rate_, volume_threshold_,
                        implied_volatilities_>>]_vars

\* A batch of one NSE quote for a symbol arrived while a different BSE
\* quote of that symbol and the quote and history of another symbol were
\* stored: the BSE quote and the other symbol's data are still there.
C30_Witness ==
    /\ call.op = "updateMarketData"
    /\ Len(call.arg) = 1
    /\ call.arg[1].exchange = "NSE"
    /\ nse_market_data_[call.arg[1].symbol] = call.arg[1]
    /\ Has(bse_market_data_, call.arg[1].symbol)
    /\ bse_market_data_[call.arg[1].symbol].price # call.arg[1].price
    /\ \E t \in Symbols \ {call.arg[1].symbol} :
          /\ Has(nse_market_data_, t)
          /\ Has(historical_volumes_, t)

\* A batch arrived while a contract was registered: the registry still
\* holds it.
C30_WitnessRegistry ==
    /\ call.op = "updateMarketData"
    /\ contracts_ # EmptyMap

====
